---------------------------- MODULE Spec2Model ----------------------------
(***************************************************************************)
(* Model of the path engine (t_path<P>), its orbit storage (orbit_t) and   *)
(* the driver-visible globals (statics) of collatz-convergent-classes.     *)
(*                                                                         *)
(* The engine is instantiated over two integer domains: "int64", the       *)
(* built-in signed integer (typedef path), scaled here to Width bits with  *)
(* two's complement wrap-around, and "mpz", the arbitrary precision        *)
(* integer (typedef mp_path), which never wraps.                           *)
(* Characters are modelled by their ASCII codes and strings by sequences   *)
(* of codes.                                                               *)
(***************************************************************************)
EXTENDS Integers, Sequences, FiniteSets, TLC

VARIABLES domain,   \* template parameter P of the engines: "int64" or "mpz"
          speed,    \* statics::speed
          pc,       \* position of the driver: "idle", "built", "rendered", "parsed"
          p,        \* the engine object under test (fields of t_path<P>)
          last,     \* the call that produced p: operation, arguments, exit route
          out,      \* the last string rendered from p by flow(), with its argument
          q,        \* a second engine, built from the string out
          qlast,    \* the call that produced q
          anc,      \* the last call of p.ancestry(): argument and results
          fault,    \* how the process ended, "none" while it runs
          nodes,    \* the heap of tree nodes: address -> t_node<K>
          tree,     \* the t_btree<K> objects "a" and "b": root, node_count
          inserted, \* per tree, how often each key was inserted (history)
          tcall,    \* the last operation on a tree
          blocks,   \* the heap of orbit blocks: address -> orbit_node_t
          orbit,    \* the orbit_t objects "a", "b" and "c"
          appended, \* per orbit, the symbols it was given, in order (history)
          ocall,    \* the last operation on an orbit
          copied,   \* whether the orbit driver has made its copy
          ancestors, \* the parents the ancestry driver was returned (history)
          before,   \* the engine p as it was when it was last re-assigned
          scan,     \* the bulk scan t_convergent_path: its locals and its report
          verdict   \* what comparing the engines p and q gave

\* the variables of the data structure drivers and of the ancestry driver
structs == <<fault, nodes, tree, inserted, tcall,
            blocks, orbit, appended, ocall, copied, ancestors, before, scan, verdict>>

\* everything but the variables of the tree driver
notTree == <<domain, speed, pc, p, last, out, q, qlast, anc,
             blocks, orbit, appended, ocall, copied, ancestors, before, scan, verdict>>

\* everything but the variables of the orbit driver
notOrbit == <<domain, speed, pc, p, last, out, q, qlast, anc,
              nodes, tree, inserted, tcall, ancestors, before, scan, verdict>>

vars == <<domain, speed, pc, p, last, out, q, qlast, anc, structs>>

---------------------------------------------------------------------------
(* Bounds of the model *)

\* Width in bits of the scaled-down built-in signed integer domain.
Width == 6

\* Largest factor budget / class length handed to setpath and the constructor.
MaxBudget == 3

\* Largest explicit digit count handed to flow().
MaxDigits == 4

\* Largest number of symbols, after the optional sign, of a class string
\* typed in by the user.
MaxClass == 4

\* Largest scale handed to ancestry().
MaxScale == 3

\* Tree keys are 1 .. MaxKey.
MaxKey == 3

\* Largest number of insertions the trees hold between them.
MaxInserts == 4

\* Largest length an orbit object is grown to by append alone.
MaxLen == 17

\* Largest number of laps of 4096 by which a compared start lies below -17.
MaxLaps == 2

\* Largest path length (in either sign) the bulk scan is asked for.
MaxPathLength == 3

\* Largest number of parents the ancestry driver is asked to list.
MaxParents == 3

\* Largest length the orbits are filled to before one is copied.
MaxFill == 9

\* Largest number of symbols appended to an orbit after the copy.
MaxTail == 2

\* Largest length of the orbits that are compared.
MaxCompared == 9

---------------------------------------------------------------------------
(* statics: process-wide constants (menu.cpp) *)

divisor == 2

multiplier == 3

addend == 1

overflow == 1

memory == 2

\* sizeof( orbit_key_t ): symbols per orbit block
BlockSize == 8

---------------------------------------------------------------------------
(* The integer domain contract *)

Pow2(n) == 2 ^ n

MinInt == -Pow2(Width - 1)

MaxInt == Pow2(Width - 1) - 1

\* The integers a driver may hand to an engine (in either domain).
Starts == MinInt .. MaxInt

\* Result of an arithmetic operation as the domain stores it: the built-in
\* type keeps the low Width bits (two's complement); mpz keeps the value.
Wrap(dom, x) ==
    IF dom = "mpz" THEN x
    ELSE ((x + Pow2(Width - 1)) % Pow2(Width)) - Pow2(Width - 1)

\* abs() of the domain
Abs(dom, x) == IF x < 0 THEN Wrap(dom, -x) ELSE x

\* sgn() template of common.hpp
Sgn(x) == IF 0 < x THEN 1 ELSE IF 0 > x THEN -1 ELSE 0

\* operator/ of the domain: quotient truncated toward zero
CDiv(a, b) ==
    LET m == (IF a < 0 THEN -a ELSE a) \div (IF b < 0 THEN -b ELSE b)
    IN  IF (a < 0) # (b < 0) THEN -m ELSE m

\* operator% of the domain: remainder with the sign of the dividend
CMod(a, b) == a - b * CDiv(a, b)

\* bitwise or of two error masks over the bits overflow (0x1) and memory (0x2)
MaskOr(a, b) ==
    (IF (a % 2 = 1) \/ (b % 2 = 1) THEN 1 ELSE 0)
    + (IF ((a \div 2) % 2 = 1) \/ ((b \div 2) % 2 = 1) THEN 2 ELSE 0)

---------------------------------------------------------------------------
(* orbit_t: the orbit as a chain of blocks of BlockSize symbols.  A block  *)
(* is written most significant symbol first; blocks[1] is the root.        *)

ZeroBlock == [i \in 1 .. BlockSize |-> 0]

\* orbit_t::init / orbit_t::clear
OrbitInit == [blocks |-> <<ZeroBlock>>, path_length |-> 0, error_mask |-> 0]

\* orbit_t::append filling a block from its least significant symbol
OrbitAppendLowFirst(orb, divisors) ==
    LET pos == orb.path_length % BlockSize
        chain == IF pos = 0 /\ pos < orb.path_length
                 THEN Append(orb.blocks, ZeroBlock)
                 ELSE orb.blocks
        cur == Len(chain)
    IN  [orb EXCEPT !.blocks = [chain EXCEPT ![cur][BlockSize - pos] = divisors % 256],
                    !.path_length = @ + 1]

\* orbit_t::append: a new block is linked when the active one is full; the
\* symbol is stored as an unsigned 8-bit value.
OrbitAppend(orb, divisors) ==
    LET pos == orb.path_length % BlockSize
        chain == IF pos = 0 /\ pos < orb.path_length
                 THEN Append(orb.blocks, ZeroBlock)
                 ELSE orb.blocks
        cur == Len(chain)
    IN  [orb EXCEPT !.blocks = [chain EXCEPT ![cur][pos + 1] = divisors % 256],
                    !.path_length = @ + 1]

\* the decoding loop of orbit_t::path: the symbols in insertion order
OrbitSymbols(orb) ==
    [i \in 1 .. orb.path_length |->
        orb.blocks[((i - 1) \div BlockSize) + 1][((i - 1) % BlockSize) + 1]]

---------------------------------------------------------------------------
(* t_path<P>: protected helpers *)

\* t_path::connection
Connection(dom, terminus) == Wrap(dom, terminus * multiplier + addend)

\* t_path::term: number of factors of the divisor in i (0 for i = 0)
RECURSIVE Term(_)
Term(i) ==
    IF i # 0 /\ CMod(i, divisor) = 0 THEN 1 + Term(CDiv(i, divisor)) ELSE 0

\* value left in the reference argument of term()
RECURSIVE TermRest(_)
TermRest(i) ==
    IF i # 0 /\ CMod(i, divisor) = 0 THEN TermRest(CDiv(i, divisor)) ELSE i

\* t_path::factor without the early exit on convergence
FactorNoEarlyExit(dom, branch, start) ==
    [facts |-> Term(branch), branch |-> TermRest(branch)]

\* t_path::factor: factors of the divisor removed from branch, stopping as
\* soon as the magnitude drops below the magnitude of start.
RECURSIVE Factor(_, _, _)
Factor(dom, branch, start) ==
    IF CMod(branch, divisor) = 0
    THEN LET b == CDiv(branch, divisor)
         IN  IF Abs(dom, b) < Abs(dom, start)
             THEN [facts |-> 1, branch |-> b]
             ELSE LET r == Factor(dom, b, start)
                  IN  [facts |-> 1 + r.facts, branch |-> r.branch]
    ELSE [facts |-> 0, branch |-> branch]

\* t_path::zeroize followed by t_path::init( start )
PathInit(start) ==
    [start_int    |-> start,
     int_sign     |-> Sgn(start),
     max_int      |-> 0,
     orb          |-> OrbitInit,
     path_factors |-> 0,
     ec_factors   |-> 0,
     next_factors |-> 0,
     ec_len       |-> 0,
     error_mask   |-> 0]

\* One pass of the do-while loop of t_path::setpath and, while the magnitude
\* stays above the start, the passes that follow.  st holds the object fields
\* the loop writes and the local current_int; route names the way out.
RECURSIVE Walk(_, _, _, _, _)
Walk(dom, spd, start, max_factors, st) ==
    LET last_int == st.current_int
        conn == Connection(dom, last_int)
    IN  IF Sgn(start) # Sgn(conn)
        THEN [st EXCEPT !.error_mask = MaskOr(@, overflow),
                        !.current_int = last_int,
                        !.route = "overflow"]
        ELSE LET mx == IF conn > st.max_int THEN conn ELSE st.max_int
                 f == Factor(dom, conn, start)
                 pf == st.path_factors + f.facts
             IN  IF spd /\ (pf > max_factors)
                 THEN [st EXCEPT !.current_int = f.branch,
                                 !.max_int = mx,
                                 !.path_factors = pf,
                                 !.route = "budget"]
                 ELSE LET nx == [st EXCEPT !.current_int = f.branch,
                                           !.max_int = mx,
                                           !.path_factors = pf,
                                           !.orb = OrbitAppend(@, f.facts)]
                      IN  IF Abs(dom, f.branch) > Abs(dom, start)
                          THEN Walk(dom, spd, start, max_factors, nx)
                          ELSE [nx EXCEPT !.route = "converged"]

\* First half of t_path::setpath without the leading 0 of an odd path
\* The do-while loop visits one value of current_int per pass and what a
\* pass does depends on that value only (and on the factors counted, which
\* grow): a loop that has not ended after as many passes as the domain has
\* values never ends.
WalkPasses == Pow2(Width)

\* a loop that goes on after current_int has come down to start
RECURSIVE WalkWithinPastStart(_, _, _, _, _, _)
WalkWithinPastStart(dom, spd, start, max_factors, st, passes) ==
    LET last_int == st.current_int
        conn == Connection(dom, last_int)
    IN  IF Sgn(start) # Sgn(conn)
        THEN [st EXCEPT !.route = "overflow"]
        ELSE LET f == Factor(dom, conn, start)
                 pf == st.path_factors + f.facts
             IN  IF spd /\ (pf > max_factors)
                 THEN [st EXCEPT !.route = "budget"]
                 ELSE IF passes = 0
                      THEN [st EXCEPT !.route = "running"]
                      ELSE WalkWithinPastStart(dom, spd, start, max_factors,
                               [st EXCEPT !.current_int = f.branch,
                                          !.path_factors = pf],
                               passes - 1)

\* the do-while loop of setpath, run for the given number of passes at
\* most: the route by which it ends, "running" when it has not ended
RECURSIVE WalkWithin(_, _, _, _, _, _)
WalkWithin(dom, spd, start, max_factors, st, passes) ==
    LET last_int == st.current_int
        conn == Connection(dom, last_int)
    IN  IF Sgn(start) # Sgn(conn)
        THEN [st EXCEPT !.route = "overflow"]
        ELSE LET f == Factor(dom, conn, start)
                 pf == st.path_factors + f.facts
             IN  IF spd /\ (pf > max_factors)
                 THEN [st EXCEPT !.route = "budget"]
                 ELSE IF Abs(dom, f.branch) > Abs(dom, start)
                      THEN IF passes = 0
                           THEN [st EXCEPT !.route = "running"]
                           ELSE WalkWithin(dom, spd, start, max_factors,
                                    [st EXCEPT !.current_int = f.branch,
                                               !.path_factors = pf],
                                    passes - 1)
                      ELSE [st EXCEPT !.route = "converged",
                                      !.path_factors = pf]

\* the route by which setpath( start, max_factors ) ends and the passes of
\* the loop are counted by the symbols of the orbit
SetPathWithin(dom, spd, start, max_factors) ==
    IF CMod(start, divisor) = 0
    THEN [current_int |-> start, path_factors |-> 1, route |-> "even"]
    ELSE WalkWithin(dom, spd, start, max_factors,
                    [current_int |-> start, path_factors |-> 0, route |-> "even"],
                    WalkPasses)

SetPathWalkNoMarker(dom, spd, start, max_factors) ==
    LET st0 == [current_int  |-> start,
                max_int      |-> start,
                orb          |-> OrbitInit,
                path_factors |-> 0,
                error_mask   |-> 0,
                route        |-> "even"]
    IN  IF CMod(start, divisor) = 0
        THEN [st0 EXCEPT !.orb = OrbitAppend(@, 1), !.path_factors = @ + 1]
        ELSE Walk(dom, spd, start, max_factors, st0)

\* First half of t_path::setpath: init, then the even case or the walk.
SetPathWalk(dom, spd, start, max_factors) ==
    LET st0 == [current_int  |-> start,
                max_int      |-> start,
                orb          |-> OrbitInit,
                path_factors |-> 0,
                error_mask   |-> 0,
                route        |-> "even"]
    IN  IF CMod(start, divisor) = 0
        THEN [st0 EXCEPT !.orb = OrbitAppend(@, 1), !.path_factors = @ + 1]
        ELSE Walk(dom, spd, start, max_factors,
                  [st0 EXCEPT !.orb = OrbitAppend(@, 0)])

\* Tail of t_path::setpath: the class-factor total and the lookahead, from
\* the value current_int the first half ended on.
ClassFactorsOf(path_factors, current_int) ==
    IF current_int # 0 THEN path_factors + Term(current_int) ELSE path_factors

NextFactorsOf(dom, start, current_int) ==
    IF current_int # 0
    THEN Term(Connection(dom, TermRest(start)))
    ELSE 0

\* t_path::setpath( start, max_factors ): the object it leaves, the route it
\* returned by and the value of current_int when the walk ended.
SetPath(dom, spd, start, max_factors) ==
    LET w == SetPathWalk(dom, spd, start, max_factors)
        base == [PathInit(start) EXCEPT !.max_int = w.max_int,
                                        !.orb = w.orb,
                                        !.path_factors = w.path_factors,
                                        !.error_mask = w.error_mask]
    IN  [obj |-> IF w.route = "budget"
                 THEN base
                 ELSE [base EXCEPT
                         !.ec_factors = ClassFactorsOf(w.path_factors, w.current_int),
                         !.next_factors = NextFactorsOf(dom, start, w.current_int)],
         route |-> w.route,
         reached |-> w.current_int]

\* t_path::set_ec: the class length computed from the starting integer
RECURSIVE EcHalvings(_, _)
EcHalvings(dom, residual) ==
    IF Abs(dom, residual) > 1 THEN 1 + EcHalvings(dom, CDiv(residual, divisor)) ELSE 0

SetEc(dom, start) == 1 + EcHalvings(dom, CDiv(start, multiplier))

\* Number of passes after which the do-while loop of t_path::ancestry has
\* tried every value of scale * start the bounded domain can hold: a search
\* that has not ended by then never ends.
AncestryPasses == Pow2(Width)

\* the do-while loop of t_path::ancestry, entered with the given scale
RECURSIVE AncestryLoop(_, _, _, _)
AncestryLoop(dom, start, scale, passes) ==
    LET product == Wrap(dom, Wrap(dom, scale * start) * divisor)
        parent == CDiv(Wrap(dom, product - addend), multiplier)
        child == TermRest(Connection(dom, parent))
    IN  IF start = child
        THEN [returned |-> TRUE, parent |-> parent, scale |-> scale]
        ELSE IF passes = 0
        THEN [returned |-> FALSE, parent |-> parent, scale |-> scale]
        ELSE AncestryLoop(dom, start, scale + 1, passes - 1)

\* t_path::ancestry( scale ): the value returned and the value left in scale
Ancestry(dom, start, scale) ==
    IF start = CDiv(start, divisor) * divisor
    THEN [returned |-> TRUE, parent |-> 0, scale |-> scale]
    ELSE IF start = CDiv(start, multiplier) * multiplier
    THEN [returned |-> TRUE, parent |-> 0, scale |-> scale]
    ELSE AncestryLoop(dom, start, scale, AncestryPasses)

---------------------------------------------------------------------------
(* t_path<P>: public operations *)

\* to_str: decimal rendering of a non-negative integer, as character codes
RECURSIVE ToStr(_)
ToStr(n) == IF n < 10 THEN <<48 + n>> ELSE ToStr(n \div 10) \o <<48 + (n % 10)>>

\* the while ( digits-- ) loop of t_path::flow
RECURSIVE FlowDigits(_, _, _, _)
FlowDigits(dom, digits, factors, remainder) ==
    IF digits = 0 THEN << >>
    ELSE LET f == CDiv(factors, divisor)
         IN  ToStr(Abs(dom, remainder))
               \o FlowDigits(dom, digits - 1, f, CMod(f, divisor))

\* sign prefix of t_path::flow that ignores the digit count
FlowSignAlways(digits, int_sign) ==
    IF int_sign # 0
    THEN (IF int_sign > 0 THEN <<43>> ELSE <<45>>)
    ELSE << >>

\* the sign prefix of t_path::flow
FlowSign(digits, int_sign) ==
    IF digits # 0 /\ int_sign # 0
    THEN (IF int_sign > 0 THEN <<43>> ELSE <<45>>)
    ELSE << >>

\* t_path::flow( digits )
Flow(dom, obj, digits) ==
    LET d1 == IF digits < 0 THEN obj.ec_len ELSE digits
        d  == IF d1 < 0 THEN 0 ELSE d1
    IN  FlowSign(d, obj.int_sign)
          \o FlowDigits(dom, d, CDiv(obj.start_int, multiplier),
                        CMod(obj.start_int, divisor * multiplier))

---------------------------------------------------------------------------
(* t_path<P>: construction from an equivalence class string *)

\* input[pos] of a std::string: the terminating NUL at pos = length
CharAt(input, pos) == IF pos < Len(input) THEN input[pos + 1] ELSE 0

\* t_path::is_signed
IsSigned(input) == CharAt(input, 0) = 43 \/ CharAt(input, 0) = 45

\* t_path::get_ec_len
GetEcLen(input) == IF IsSigned(input) THEN Len(input) - 1 ELSE Len(input)

\* the rollover test of t_path::parse, made before a position is consumed
Rollover(dom, mult) == Abs(dom, Wrap(dom, mult * 2)) < mult

\* the while ( --strlen > 0 ) loop of t_path::parse; strlen is the value
\* before the decrement.  Returns the accumulated integer, 0 on an error.
RECURSIVE ParseLoop(_, _, _, _, _, _, _)
ParseLoop(dom, input, pos, strlen, local, mult, rollover) ==
    IF strlen - 1 > 0
    THEN LET roll == rollover \/ Rollover(dom, mult)
             ch == CharAt(input, pos)
         IN  IF ch = 49
             THEN IF roll THEN [ok |-> FALSE, local |-> 0]
                  ELSE ParseLoop(dom, input, pos + 1, strlen - 1,
                                 Wrap(dom, local + mult), Wrap(dom, mult * 2), roll)
             ELSE IF ch # 48 THEN [ok |-> FALSE, local |-> 0]
             ELSE ParseLoop(dom, input, pos + 1, strlen - 1,
                            local, Wrap(dom, mult * 2), roll)
    ELSE [ok |-> TRUE, local |-> local]

\* t_path::parse
Parse(dom, input) ==
    LET signed == IsSigned(input)
        eq_sign == IF signed /\ CharAt(input, 0) = 45 THEN -1 ELSE 1
        first == IF signed THEN 1 ELSE 0
        ch == CharAt(input, first)
        strlen == IF signed THEN Len(input) - 1 ELSE Len(input)
    IN  IF ch < 48 \/ ch > 53 THEN 0
        ELSE LET r == ParseLoop(dom, input, first + 1, strlen, ch - 48,
                                Wrap(dom, multiplier * divisor), FALSE)
             IN  IF r.ok THEN Wrap(dom, r.local * eq_sign) ELSE 0

---------------------------------------------------------------------------
(* t_btree<K>: a binary tree of (key, count) nodes allocated on a heap.    *)
(* Address 0 is nullptr.  Each tree object draws its nodes from its own    *)
(* range of addresses, lowest free address first.                          *)

Keys == 1 .. MaxKey

TreeNames == {"a", "b"}

NodeAddrs == 1 .. 2 * MaxKey

\* the addresses operator new hands to the nodes of tree t
Arena(t) == IF t = "a" THEN 1 .. MaxKey ELSE MaxKey + 1 .. 2 * MaxKey

\* t_node<K>::t_node(); also the content of memory that holds no node
NoNode == [live |-> FALSE, key_value |-> 0, count |-> 0, left |-> 0, right |-> 0]

\* new t_node<K> for tree t, with key and count as the callers set them
NewAddr(heap, t) ==
    CHOOSE a \in Arena(t) : ~heap[a].live /\ \A b \in Arena(t) : b < a => heap[b].live

Leaf(key, count) ==
    [live |-> TRUE, key_value |-> key, count |-> count, left |-> 0, right |-> 0]

\* t_btree::zeroize; exists is FALSE before construction and after destruction
Zeroize == [exists |-> TRUE, root |-> 0, node_count |-> 0]

NoTree == [exists |-> FALSE, root |-> 0, node_count |-> 0]

\* protected t_btree::insert( key, leaf ) that never creates a second node
\* for a key: the step into the right subtree is taken for equal keys too
RECURSIVE InsertAtNoMatch(_, _, _, _, _)
InsertAtNoMatch(heap, t, key, leaf, budget) ==
    LET n == heap[leaf]
    IN  IF key >= n.key_value
        THEN IF n.right # 0 THEN InsertAtNoMatch(heap, t, key, n.right, budget)
             ELSE IF budget = 0 THEN [heap |-> heap, created |-> 0, threw |-> TRUE]
             ELSE LET a == NewAddr(heap, t)
                  IN  [heap |-> [heap EXCEPT ![leaf].right = a, ![a] = Leaf(key, 1)],
                       created |-> 1, threw |-> FALSE]
        ELSE IF n.left # 0 THEN InsertAtNoMatch(heap, t, key, n.left, budget)
             ELSE IF budget = 0 THEN [heap |-> heap, created |-> 0, threw |-> TRUE]
             ELSE LET a == NewAddr(heap, t)
                  IN  [heap |-> [heap EXCEPT ![leaf].left = a, ![a] = Leaf(key, 1)],
                       created |-> 1, threw |-> FALSE]

\* protected t_btree::insert( key, leaf ): budget is the number of times
\* operator new succeeds; at budget 0 it throws std::bad_alloc before
\* anything is written.
RECURSIVE InsertAt(_, _, _, _, _)
InsertAt(heap, t, key, leaf, budget) ==
    LET n == heap[leaf]
    IN  IF key = n.key_value
        THEN [heap |-> [heap EXCEPT ![leaf].count = @ + 1],
              created |-> 0, threw |-> FALSE]
        ELSE IF key > n.key_value
        THEN IF n.right # 0 THEN InsertAt(heap, t, key, n.right, budget)
             ELSE IF budget = 0 THEN [heap |-> heap, created |-> 0, threw |-> TRUE]
             ELSE LET a == NewAddr(heap, t)
                  IN  [heap |-> [heap EXCEPT ![leaf].right = a, ![a] = Leaf(key, 1)],
                       created |-> 1, threw |-> FALSE]
        ELSE IF n.left # 0 THEN InsertAt(heap, t, key, n.left, budget)
             ELSE IF budget = 0 THEN [heap |-> heap, created |-> 0, threw |-> TRUE]
             ELSE LET a == NewAddr(heap, t)
                  IN  [heap |-> [heap EXCEPT ![leaf].left = a, ![a] = Leaf(key, 1)],
                       created |-> 1, threw |-> FALSE]

\* public t_btree::insert( key ) on the object obj named t
Insert(heap, t, obj, key, budget) ==
    IF obj.root # 0
    THEN LET r == InsertAt(heap, t, key, obj.root, budget)
         IN  [heap |-> r.heap,
              obj |-> [obj EXCEPT !.node_count = @ + r.created],
              threw |-> r.threw]
    ELSE IF budget = 0 THEN [heap |-> heap, obj |-> obj, threw |-> TRUE]
    ELSE LET a == NewAddr(heap, t)
         IN  [heap |-> [heap EXCEPT ![a] = Leaf(key, 1)],
              obj |-> [obj EXCEPT !.root = a, !.node_count = 1],
              threw |-> FALSE]

\* protected t_btree::search( key, leaf ): the address of the node, or 0
RECURSIVE SearchAt(_, _, _)
SearchAt(heap, key, leaf) ==
    IF leaf # 0
    THEN IF key = heap[leaf].key_value THEN leaf
         ELSE IF key < heap[leaf].key_value
         THEN SearchAt(heap, key, heap[leaf].left)
         ELSE SearchAt(heap, key, heap[leaf].right)
    ELSE 0

\* public t_btree::search( key )
Search(heap, obj, key) ==
    LET n_ptr == SearchAt(heap, key, obj.root)
    IN  IF n_ptr # 0 THEN heap[n_ptr].count ELSE 0

\* t_btree::nodes
Nodes(obj) == obj.node_count

\* t_btree::traverse that adds a count to the sum only when it also hands it
\* to a visitor
RECURSIVE TraverseSumOnVisit(_, _, _, _, _)
TraverseSumOnVisit(heap, node, acc, func, forward) ==
    IF node # 0
    THEN LET first == IF forward THEN heap[node].left ELSE heap[node].right
             second == IF forward THEN heap[node].right ELSE heap[node].left
             a1 == TraverseSumOnVisit(heap, first, acc, func, forward)
             a2 == IF func
                   THEN [sum |-> a1.sum + heap[node].count,
                         calls |-> Append(a1.calls,
                                          <<heap[node].key_value, heap[node].count>>)]
                   ELSE a1
         IN  TraverseSumOnVisit(heap, second, a2, func, forward)
    ELSE acc

\* t_btree::traverse: acc holds the running sum and the calls made to the
\* visitor so far; func says whether a visitor was supplied
RECURSIVE Traverse(_, _, _, _, _)
Traverse(heap, node, acc, func, forward) ==
    IF node # 0
    THEN LET first == IF forward THEN heap[node].left ELSE heap[node].right
             second == IF forward THEN heap[node].right ELSE heap[node].left
             a1 == Traverse(heap, first, acc, func, forward)
             a2 == [sum |-> a1.sum + heap[node].count,
                    calls |-> IF func
                              THEN Append(a1.calls, <<heap[node].key_value, heap[node].count>>)
                              ELSE a1.calls]
         IN  Traverse(heap, second, a2, func, forward)
    ELSE acc

\* the two iterators with their directions exchanged
IterateBackward(heap, obj, func, forward) ==
    Traverse(heap, obj.root, [sum |-> 0, calls |-> << >>], func, ~forward)

\* constForwardIterator( func ) / constReverseIterator( func )
Iterate(heap, obj, func, forward) ==
    Traverse(heap, obj.root, [sum |-> 0, calls |-> << >>], func, forward)

\* the nodes destroy_tree( leaf ) deletes: leaf and everything below it
RECURSIVE Subtree(_, _)
Subtree(heap, leaf) ==
    IF leaf = 0 THEN {}
    ELSE {leaf} \cup Subtree(heap, heap[leaf].left) \cup Subtree(heap, heap[leaf].right)

\* protected t_btree::destroy_tree( leaf )
DestroyTree(heap, leaf) ==
    LET gone == Subtree(heap, leaf)
    IN  [a \in NodeAddrs |-> IF a \in gone THEN NoNode ELSE heap[a]]

\* t_btree::duplicate( nptr ) into the arena of tree t: the node, then its
\* left subtree, then its right subtree.  When new throws, the nodes made so
\* far stay allocated and nothing points to them.
RECURSIVE Duplicate(_, _, _, _)
Duplicate(heap, t, nptr, budget) ==
    IF nptr = 0
    THEN [heap |-> heap, ptr |-> 0, budget |-> budget, threw |-> FALSE]
    ELSE IF budget = 0
    THEN [heap |-> heap, ptr |-> 0, budget |-> 0, threw |-> TRUE]
    ELSE LET a == NewAddr(heap, t)
             h1 == [heap EXCEPT ![a] = Leaf(heap[nptr].key_value, heap[nptr].count)]
             l == Duplicate(h1, t, heap[nptr].left, budget - 1)
         IN  IF l.threw THEN l
             ELSE LET h2 == [l.heap EXCEPT ![a].left = l.ptr]
                      r == Duplicate(h2, t, heap[nptr].right, l.budget)
                  IN  IF r.threw THEN r
                      ELSE [heap |-> [r.heap EXCEPT ![a].right = r.ptr],
                            ptr |-> a, budget |-> r.budget, threw |-> FALSE]

\* t_btree::operator=( tree ) on two different objects: obj named t takes
\* the content of src
Assign(heap, t, obj, src, budget) ==
    LET h0 == DestroyTree(heap, obj.root)
    IN  IF src.root # 0
        THEN LET d == Duplicate(h0, t, src.root, budget)
             IN  IF d.threw
                 THEN [heap |-> d.heap, obj |-> Zeroize, threw |-> TRUE]
                 ELSE [heap |-> d.heap,
                       obj |-> [exists |-> TRUE, root |-> d.ptr,
                                node_count |-> src.node_count],
                       threw |-> FALSE]
        ELSE [heap |-> h0, obj |-> Zeroize, threw |-> FALSE]

---------------------------------------------------------------------------
(* orbit_t as an object: the root block is a member, the blocks after it   *)
(* are nodes on a heap, linked by next.  Address 0 is nullptr; in the      *)
(* field curr, 0 stands for the address of the member root.  Each object   *)
(* draws its nodes from its own range of addresses, lowest free first.     *)

OrbitNames == {"a", "b", "c"}

\* heap nodes an object of length MaxLen can need, and a spare one
NodesPerOrbit == (MaxLen \div BlockSize) + 1

BlockAddrs == 1 .. 3 * NodesPerOrbit

BlockArena(o) ==
    LET first == IF o = "a" THEN 0 ELSE IF o = "b" THEN NodesPerOrbit
                 ELSE 2 * NodesPerOrbit
    IN  first + 1 .. first + NodesPerOrbit

\* memory that holds no node
NoBlock == [live |-> FALSE, key |-> ZeroBlock, next |-> 0]

\* orbit_node_t::orbit_node_t, orbit_node_t::init
InitBlock == [live |-> TRUE, key |-> ZeroBlock, next |-> 0]

\* orbit_t::init; exists is FALSE before construction and after destruction
InitOrbit == [exists |-> TRUE, key |-> ZeroBlock, next |-> 0, curr |-> 0,
              path_length |-> 0, error_mask |-> 0]

NoOrbit == [InitOrbit EXCEPT !.exists = FALSE]

NewBlockAddr(heap, o) ==
    CHOOSE a \in BlockArena(o) :
        ~heap[a].live /\ \A b \in BlockArena(o) : b < a => heap[b].live

\* curr -> next = new_node(); curr = curr -> next: the heap and the object
\* after a node is linked behind the current one
LinkNode(heap, o, obj) ==
    LET a == NewBlockAddr(heap, o)
        h1 == [heap EXCEPT ![a] = InitBlock]
    IN  IF obj.curr = 0
        THEN [heap |-> h1, obj |-> [obj EXCEPT !.next = a, !.curr = a]]
        ELSE [heap |-> [h1 EXCEPT ![obj.curr].next = a],
              obj |-> [obj EXCEPT !.curr = a]]

\* curr->key.c_key[ ... ] = value for the whole block or one symbol of it
StoreKey(heap, obj, key) ==
    IF obj.curr = 0
    THEN [heap |-> heap, obj |-> [obj EXCEPT !.key = key]]
    ELSE [heap |-> [heap EXCEPT ![obj.curr].key = key], obj |-> obj]

CurrKey(heap, obj) == IF obj.curr = 0 THEN obj.key ELSE heap[obj.curr].key

\* orbit_t::append that fills a block from its other end
AppendSymbolLowFirst(heap, o, obj, divisors, budget) ==
    LET pos == obj.path_length % BlockSize
        grow == pos = 0 /\ pos < obj.path_length
    IN  IF grow /\ budget = 0
        THEN [heap |-> heap, obj |-> obj, threw |-> TRUE]
        ELSE LET l == IF grow THEN LinkNode(heap, o, obj)
                      ELSE [heap |-> heap, obj |-> obj]
                 key == [CurrKey(l.heap, l.obj) EXCEPT ![BlockSize - pos] = divisors % 256]
                 st == StoreKey(l.heap, l.obj, key)
             IN  [heap |-> st.heap,
                  obj |-> [st.obj EXCEPT !.path_length = @ + 1],
                  threw |-> FALSE]

\* orbit_t::append( divisors ) on the object obj named o.  budget is the
\* number of times operator new succeeds: at budget 0 new_node() throws
\* std::bad_alloc (it never returns nullptr) before anything is written.
AppendSymbol(heap, o, obj, divisors, budget) ==
    LET pos == obj.path_length % BlockSize
        grow == pos = 0 /\ pos < obj.path_length
    IN  IF grow /\ budget = 0
        THEN [heap |-> heap, obj |-> obj, threw |-> TRUE]
        ELSE LET l == IF grow THEN LinkNode(heap, o, obj)
                      ELSE [heap |-> heap, obj |-> obj]
                 key == [CurrKey(l.heap, l.obj) EXCEPT ![pos + 1] = divisors % 256]
                 st == StoreKey(l.heap, l.obj, key)
             IN  [heap |-> st.heap,
                  obj |-> [st.obj EXCEPT !.path_length = @ + 1],
                  threw |-> FALSE]

\* the node reached from ptr after k - 1 steps along next
RECURSIVE Follow(_, _, _)
Follow(heap, ptr, k) == IF k <= 1 THEN ptr ELSE Follow(heap, heap[ptr].next, k - 1)

\* the block that holds symbol number i (from 0) of the object
KeyOfSymbol(heap, obj, i) ==
    IF i \div BlockSize = 0 THEN obj.key
    ELSE heap[Follow(heap, obj.next, i \div BlockSize)].key

\* the symbols the loop of orbit_t::path reads, in order
StoredSymbols(heap, obj) ==
    [i \in 1 .. obj.path_length |->
        KeyOfSymbol(heap, obj, i - 1)[((i - 1) % BlockSize) + 1]]

\* path_str += std::to_string( symbol ) + ' ' for every symbol
RECURSIVE Spaced(_)
Spaced(syms) ==
    IF syms = << >> THEN << >>
    ELSE ToStr(Head(syms)) \o <<32>> \o Spaced(Tail(syms))

\* orbit_t::path of an object with at least one symbol: the trailing space
\* is removed
Path(heap, obj) ==
    LET str == Spaced(StoredSymbols(heap, obj))
    IN  SubSeq(str, 1, Len(str) - 1)

\* orbit_t::path_len
PathLen(obj) == obj.path_length

\* the heap nodes linked behind ptr
RECURSIVE Chain(_, _)
Chain(heap, ptr) == IF ptr = 0 THEN {} ELSE {ptr} \cup Chain(heap, heap[ptr].next)

\* orbit_t::free_list
FreeList(heap, obj) ==
    LET gone == Chain(heap, obj.next)
    IN  [a \in BlockAddrs |-> IF a \in gone THEN NoBlock ELSE heap[a]]

\* orbit_t::clear
Clear(heap, obj) == [heap |-> FreeList(heap, obj), obj |-> InitOrbit]

\* the while ( source ) loop of orbit_t::copy_list
RECURSIVE CopyLoop(_, _, _, _, _)
CopyLoop(heap, o, obj, source, budget) ==
    IF source = 0 THEN [heap |-> heap, obj |-> obj, threw |-> FALSE]
    ELSE IF budget = 0 THEN [heap |-> heap, obj |-> obj, threw |-> TRUE]
    ELSE LET l == LinkNode(heap, o, obj)
             st == StoreKey(l.heap, l.obj, heap[source].key)
         IN  CopyLoop(st.heap, o, st.obj, heap[source].next, budget - 1)

\* orbit_t::copy_list that links the nodes of the source instead of copies
CopyListShared(heap, o, obj, ro, budget) ==
    [heap |-> heap,
     obj |-> [obj EXCEPT !.path_length = ro.path_length,
                         !.error_mask = ro.error_mask,
                         !.key = ro.key,
                         !.next = ro.next,
                         !.curr = ro.curr],
     threw |-> FALSE]

\* orbit_t::copy_list( ro ) into the object obj named o
CopyList(heap, o, obj, ro, budget) ==
    CopyLoop(heap, o,
             [obj EXCEPT !.path_length = ro.path_length,
                         !.error_mask = ro.error_mask,
                         !.key = ro.key],
             ro.next, budget)

\* orbit_t::orbit_t( const orbit_t& ): init, then copy_list
CopyOrbit(heap, o, ro, budget) == CopyList(heap, o, InitOrbit, ro, budget)

\* orbit_t::operator=( ro ) on two different objects
AssignOrbit(heap, o, obj, ro, budget) ==
    LET h0 == FreeList(heap, obj)
        rooted == [obj EXCEPT !.key = ro.key, !.next = 0, !.curr = 0]
    IN  CopyList(h0, o, rooted, ro, budget)

\* key.i_key < ro.key.i_key comparing the symbols of lowest address first
KeyLessLowFirst(key, ro) ==
    \E i \in 1 .. BlockSize :
        /\ key[i] < ro[i]
        /\ \A j \in i + 1 .. BlockSize : key[j] = ro[j]

\* key.i_key < ro.key.i_key: the 64-bit integer whose most significant
\* byte is c_key[7], the first symbol of the block
KeyLess(key, ro) ==
    \E i \in 1 .. BlockSize :
        /\ key[i] < ro[i]
        /\ \A j \in 1 .. i - 1 : key[j] = ro[j]

\* orbit_node_t::operator==, on a node given by its key and its next
RECURSIVE NodeEqual(_, _, _, _, _)
NodeEqual(heap, key, next, rokey, ronext) ==
    IF key = rokey
    THEN IF next # 0 /\ ronext # 0
         THEN NodeEqual(heap, heap[next].key, heap[next].next,
                        heap[ronext].key, heap[ronext].next)
         ELSE TRUE
    ELSE FALSE

\* orbit_node_t::operator<
RECURSIVE NodeLess(_, _, _, _, _)
NodeLess(heap, key, next, rokey, ronext) ==
    IF key = rokey
    THEN IF next # 0 /\ ronext # 0
         THEN NodeLess(heap, heap[next].key, heap[next].next,
                       heap[ronext].key, heap[ronext].next)
         ELSE FALSE
    ELSE KeyLess(key, rokey)

\* orbit_node_t::operator>
RECURSIVE NodeGreater(_, _, _, _, _)
NodeGreater(heap, key, next, rokey, ronext) ==
    IF key = rokey
    THEN IF next # 0 /\ ronext # 0
         THEN NodeGreater(heap, heap[next].key, heap[next].next,
                          heap[ronext].key, heap[ronext].next)
         ELSE FALSE
    ELSE KeyLess(rokey, key)

\* orbit_t::operator==, operator< and operator>: the comparison of the roots
OrbitEqual(heap, obj, ro) == NodeEqual(heap, obj.key, obj.next, ro.key, ro.next)

OrbitLess(heap, obj, ro) == NodeLess(heap, obj.key, obj.next, ro.key, ro.next)

OrbitGreater(heap, obj, ro) == NodeGreater(heap, obj.key, obj.next, ro.key, ro.next)

---------------------------------------------------------------------------
(* The state machine: a driver that builds an engine, renders its class    *)
(* string, builds a second engine from that string and lets both go out of *)
(* scope, as the loops of menu.cpp and the tests of main.cpp do.           *)

Budgets == -1 .. MaxBudget

NoCall == [op |-> "none", start |-> 0, max_factors |-> 0,
           route |-> "none", reached |-> 0]

NoOut == [op |-> "none", digits |-> 0, str |-> << >>]

---------------------------------------------------------------------------
(* t_convergent_path (menu.cpp).  A tree of the scan is a function from    *)
(* the orbits inserted (their symbols) to their counts.                    *)

\* find_range( digits ): multiplier * divisor^digits, 0 without digits
FindRange(digits) == IF digits > 0 THEN multiplier * (divisor ^ digits) ELSE 0

\* int blipexp = path_length > 24 ? ( path_length - 9 ) : 15
BlipExp(path_length) == IF path_length > 24 THEN path_length - 9 ELSE 15

\* whether the loop targets the integers 3 (mod 4) only
Skipping(spd, path_length) == spd /\ path_length >= BlipExp(path_length)

EmptyOrbitTree == << >>

\* t_btree::insert( key ): a new node, or one more on the count of its node
OrbitTreeInsert(t, key) ==
    IF key \in DOMAIN t
    THEN [t EXCEPT ![key] = @ + 1]
    ELSE [k \in DOMAIN t \cup {key} |-> IF k = key THEN 1 ELSE t[k]]

\* t_btree::nodes()
OrbitTreeNodes(t) == Cardinality(DOMAIN t)

\* t_btree::constForwardIterator( f ): the sum of the counts of the nodes
RECURSIVE CountsOver(_, _)
CountsOver(t, keys) ==
    IF keys = {} THEN 0
    ELSE LET k == CHOOSE x \in keys : TRUE
         IN  t[k] + CountsOver(t, keys \ {k})

OrbitTreeCounts(t) == CountsOver(t, DOMAIN t)

NoScan ==
    [phase |-> "idle", sign |-> 0, path_length |-> 0, range |-> 0,
     i |-> 0, increment |-> 0, trees |-> << >>,
     max_terminus |-> 0, max_of_max |-> 0,
     inserting |-> FALSE, index |-> 0, overrun |-> FALSE,
     report |-> << >>, sum |-> 0]

\* the locals of t_convergent_path( n ) when its loop is entered
ScanBegin(spd, n) ==
    LET path_length == IF n < 0 THEN -n ELSE n
    IN  [NoScan EXCEPT
           !.phase = "loop",
           !.sign = Sgn(n),
           !.path_length = path_length,
           !.range = FindRange(path_length),
           !.i = IF Skipping(spd, path_length) THEN 3 ELSE 1,
           !.increment = IF Skipping(spd, path_length) THEN 4 ELSE 1,
           !.trees = [k \in 0 .. path_length |-> EmptyOrbitTree]]

\* one pass of the loop over the range: P p( i * sign, path_length ), the
\* maximum, and the insertion of the orbit into the tree of its length.
\* An index beyond the array is recorded; the trees are left as they are.
ScanPass(dom, spd, s) ==
    LET e == SetPath(dom, spd, Wrap(dom, s.i * s.sign), s.path_length).obj
        larger == e.max_int > s.max_of_max
        inserting == e.path_factors <= s.path_length
        index == e.orb.path_length
        inside == index \in 0 .. s.path_length
    IN  [s EXCEPT
           !.max_terminus = IF larger THEN s.i ELSE @,
           !.max_of_max = IF larger THEN e.max_int ELSE @,
           !.inserting = inserting,
           !.index = IF inserting THEN index ELSE 0,
           !.overrun = @ \/ (inserting /\ ~inside),
           !.trees = IF inserting /\ inside
                     THEN [@ EXCEPT ![index] = OrbitTreeInsert(@, OrbitSymbols(e.orb))]
                     ELSE @,
           !.i = @ + s.increment]

\* the lines node_path_print writes for the trees from length i on
RECURSIVE TreeLines(_, _)
TreeLines(s, i) ==
    IF i > s.path_length THEN << >>
    ELSE (IF OrbitTreeNodes(s.trees[i]) # 0
          THEN <<[len |-> i, nodes |-> OrbitTreeNodes(s.trees[i]),
                  frequency |-> OrbitTreeCounts(s.trees[i])]>>
          ELSE << >>) \o TreeLines(s, i + 1)

RECURSIVE SumCounts(_, _)
SumCounts(s, i) ==
    IF i > s.path_length THEN 0
    ELSE OrbitTreeCounts(s.trees[i]) + SumCounts(s, i + 1)

\* the end of t_convergent_path: the lines of the frequency table and the
\* total, with the two extrapolated lines first in speed mode
ScanReport(spd, s) ==
    LET faked == IF spd
                 THEN <<[len |-> 1, nodes |-> 1, frequency |-> s.range \div 2],
                        [len |-> 2, nodes |-> 1, frequency |-> s.range \div 4]>>
                 ELSE << >>
    IN  [s EXCEPT
           !.phase = "done",
           !.inserting = FALSE,
           !.index = 0,
           !.report = faked \o TreeLines(s, 0),
           !.sum = (IF spd THEN s.range \div 2 + s.range \div 4 ELSE 0)
                   + SumCounts(s, 0)]

\* the whole loop, from the pass the scan is at
RECURSIVE ScanLoop(_, _, _)
ScanLoop(dom, spd, s) ==
    IF s.i <= s.range THEN ScanLoop(dom, spd, ScanPass(dom, spd, s)) ELSE s

\* t_convergent_path( n ) from its call to its return
ConvergentPath(dom, spd, n) == ScanReport(spd, ScanLoop(dom, spd, ScanBegin(spd, n)))

---------------------------------------------------------------------------
(* The comparison of two engines (t_path::operator== and operator!=).      *)

\* orbit_node_t::operator== along the blocks of two orbits, from block k:
\* true when the blocks agree until either chain ends
RECURSIVE ChainEqual(_, _, _)
ChainEqual(x, y, k) ==
    IF x[k] = y[k]
    THEN IF k < Len(x) /\ k < Len(y)
         THEN ChainEqual(x, y, k + 1)
         ELSE TRUE
    ELSE FALSE

\* orbit_t::operator== on the orbits of two engines
OrbEqual(orb, ro) == ChainEqual(orb.blocks, ro.blocks, 1)

\* t_path::operator==
PathEqual(lp, rp) ==
    IF lp.orb.path_length # rp.orb.path_length
    THEN FALSE
    ELSE OrbEqual(lp.orb, rp.orb)

\* t_path::operator!=
PathNotEqual(lp, rp) == ~OrbEqual(lp.orb, rp.orb)

NoVerdict == [compared |-> FALSE, equal |-> FALSE, not_equal |-> FALSE]

NoSearch == [scale_in |-> 0, returned |-> FALSE, parent |-> 0, scale |-> 0]

NoTreeCall == [op |-> "none", target |-> "a", source |-> "a", alloc_failed |-> FALSE]

NoInserts == [k \in Keys |-> 0]

\* no operation on an orbit yet
NoOrbitCall == [op |-> "none", target |-> "none", middle |-> "none",
                source |-> "none", alloc_failed |-> FALSE]

\* Both engines default-constructed (t_path::t_path()), speed off (menu.cpp).
Init ==
    /\ domain \in {"int64", "mpz"}
    /\ speed = FALSE
    /\ pc = "idle"
    /\ p = PathInit(0)
    /\ last = NoCall
    /\ out = NoOut
    /\ q = PathInit(0)
    /\ qlast = NoCall
    /\ anc = NoSearch
    /\ fault = "none"
    /\ nodes = [a \in NodeAddrs |-> NoNode]
    /\ tree = [t \in TreeNames |-> IF t = "a" THEN Zeroize ELSE NoTree]
    /\ inserted = [t \in TreeNames |-> NoInserts]
    /\ tcall = NoTreeCall
    /\ blocks = [a \in BlockAddrs |-> NoBlock]
    /\ orbit = [o \in OrbitNames |-> IF o = "c" THEN NoOrbit ELSE InitOrbit]
    /\ appended = [o \in OrbitNames |-> << >>]
    /\ ocall = NoOrbitCall
    /\ copied = FALSE
    /\ ancestors = << >>
    /\ before = PathInit(0)
    /\ scan = NoScan
    /\ verdict = NoVerdict

\* menu option 's', taken at the menu prompt: statics::speed = !statics::speed
ToggleSpeed ==
    /\ pc = "idle"
    /\ speed' = ~speed
    /\ UNCHANGED <<domain, pc, p, last, out, q, qlast>>
    /\ UNCHANGED <<anc, structs>>

\* p.setpath( start, max_factors )
CallSetPath(start, max_factors) ==
    /\ pc = "idle"
    /\ LET r == SetPath(domain, speed, start, max_factors)
       IN  /\ p' = r.obj
           /\ last' = [op |-> "setpath", start |-> start,
                       max_factors |-> max_factors,
                       route |-> r.route, reached |-> r.reached]
    /\ pc' = "built"
    /\ UNCHANGED <<domain, speed, out, q, qlast>>
    /\ UNCHANGED <<anc, structs>>

\* p = start: t_path::operator=( const P& ), also the integer constructor;
\* setpath is called with its default max_factors = 0
\* t_convergent_path( n ) is called
ConvergentStart(n) ==
    /\ pc = "idle"
    /\ fault = "none"
    /\ pc' = "scanning"
    /\ scan' = ScanBegin(speed, n)
    /\ UNCHANGED <<domain, speed, p, last, out, q, qlast, anc>>
    /\ UNCHANGED <<fault, nodes, tree, inserted, tcall,
                   blocks, orbit, appended, ocall, copied, ancestors, before, verdict>>

\* one pass of its loop.  An insertion at an index beyond the array of
\* trees writes outside the array: the process goes on or is ended.
ConvergentPass ==
    /\ pc = "scanning"
    /\ fault = "none"
    /\ scan.phase = "loop"
    /\ scan.i <= scan.range
    /\ scan' = ScanPass(domain, speed, scan)
    /\ IF scan'.inserting /\ scan'.index \notin 0 .. scan.path_length
       THEN fault' \in {"none", "overrun"}
       ELSE fault' = fault
    /\ UNCHANGED <<domain, speed, pc, p, last, out, q, qlast, anc>>
    /\ UNCHANGED <<nodes, tree, inserted, tcall,
                   blocks, orbit, appended, ocall, copied, ancestors, before, verdict>>

\* the loop is over: the frequencies are printed
ConvergentReport ==
    /\ pc = "scanning"
    /\ fault = "none"
    /\ scan.phase = "loop"
    /\ scan.i > scan.range
    /\ scan' = ScanReport(speed, scan)
    /\ UNCHANGED <<domain, speed, pc, p, last, out, q, qlast, anc>>
    /\ UNCHANGED <<fault, nodes, tree, inserted, tcall,
                   blocks, orbit, appended, ocall, copied, ancestors, before, verdict>>

\* t_convergent_path returns to the menu
ConvergentReturn ==
    /\ pc = "scanning"
    /\ scan.phase = "done"
    /\ pc' = "idle"
    /\ scan' = NoScan
    /\ UNCHANGED <<domain, speed, p, last, out, q, qlast, anc>>
    /\ UNCHANGED <<fault, nodes, tree, inserted, tcall,
                   blocks, orbit, appended, ocall, copied, ancestors, before, verdict>>

AssignInt(start) ==
    /\ pc = "idle"
    /\ LET r == SetPath(domain, speed, start, 0)
       IN  /\ p' = [r.obj EXCEPT !.ec_len = SetEc(domain, start)]
           /\ last' = [op |-> "assign", start |-> start, max_factors |-> 0,
                       route |-> r.route, reached |-> r.reached]
    /\ pc' = "built"
    /\ UNCHANGED <<domain, speed, out, q, qlast>>
    /\ UNCHANGED <<anc, structs>>

\* t_path( start, class_len ): setpath with the class length as the budget
ConstructClassLen(start, class_len) ==
    /\ pc = "idle"
    /\ LET r == SetPath(domain, speed, start, class_len)
       IN  /\ p' = [r.obj EXCEPT !.ec_len = IF class_len < 0 THEN 0 ELSE class_len]
           /\ last' = [op |-> "construct", start |-> start,
                       max_factors |-> class_len,
                       route |-> r.route, reached |-> r.reached]
    /\ pc' = "built"
    /\ UNCHANGED <<domain, speed, out, q, qlast>>
    /\ UNCHANGED <<anc, structs>>

\* out = p.flow( digits )
CallFlow(digits) ==
    /\ pc = "built"
    /\ out' = [op |-> "flow", digits |-> digits, str |-> Flow(domain, p, digits)]
    /\ pc' = "rendered"
    /\ UNCHANGED <<domain, speed, p, last, q, qlast>>
    /\ UNCHANGED <<anc, structs>>

\* q = t_path( out ): t_path::t_path( const std::string& )
ConstructFromString ==
    /\ pc = "rendered"
    /\ LET val == Parse(domain, out.str)
           r == SetPath(domain, speed, val, 0)
       IN  /\ q' = [r.obj EXCEPT !.ec_len = GetEcLen(out.str)]
           /\ qlast' = [op |-> "string", start |-> val, max_factors |-> 0,
                        route |-> r.route, reached |-> r.reached]
    /\ pc' = "parsed"
    /\ UNCHANGED <<domain, speed, p, last, out>>
    /\ UNCHANGED <<anc, structs>>

\* The strings a user may type at the class prompt: an optional sign, then
\* up to MaxClass characters out of '+', '0', '1', '2', '5', '6'.
ClassChars == {43, 48, 49, 50, 53, 54}

ClassInputs ==
    {sign \o body : sign \in {<< >>, <<43>>, <<45>>},
                    body \in UNION {[1 .. k -> ClassChars] : k \in 0 .. MaxClass}}

\* menu option 'e', P p( eq_class ): t_path::t_path( const std::string& ) on
\* a string read from the user
ConstructFromInput(input) ==
    /\ pc = "idle"
    /\ out' = [op |-> "input", digits |-> 0, str |-> input]
    /\ LET val == Parse(domain, input)
           r == SetPath(domain, speed, val, 0)
       IN  /\ q' = [r.obj EXCEPT !.ec_len = GetEcLen(input)]
           /\ qlast' = [op |-> "string", start |-> val, max_factors |-> 0,
                        route |-> r.route, reached |-> r.reached]
    /\ pc' = "parsed"
    /\ UNCHANGED <<domain, speed, p, last>>
    /\ UNCHANGED <<anc, structs>>

\* menu option 'd': next = p.ancestry( scale ) on the engine just built; a
\* search that never ends leaves the driver inside the call
CallAncestry(scale) ==
    /\ pc = "built"
    /\ LET r == Ancestry(domain, p.start_int, scale)
       IN  /\ anc' = [scale_in |-> scale, returned |-> r.returned,
                      parent |-> r.parent, scale |-> r.scale]
           /\ pc' = IF r.returned THEN "searched" ELSE "searching"
    /\ UNCHANGED <<domain, speed, p, last, out, q, qlast>>
    /\ UNCHANGED structs

\* the engines go out of scope; the driver is back at the menu prompt
Release ==
    /\ pc \notin {"idle", "searching"}
    /\ pc' = "idle"
    /\ p' = PathInit(0)
    /\ last' = NoCall
    /\ out' = NoOut
    /\ q' = PathInit(0)
    /\ qlast' = NoCall
    /\ anc' = NoSearch
    /\ UNCHANGED <<domain, speed>>
    /\ UNCHANGED structs

Next ==
    \/ ToggleSpeed
    \/ \E start \in Starts, b \in Budgets : CallSetPath(start, b)
    \/ \E start \in Starts : AssignInt(start)
    \/ \E start \in Starts, b \in Budgets : ConstructClassLen(start, b)
    \/ \E d \in -1 .. MaxDigits : CallFlow(d)
    \/ ConstructFromString
    \/ Release

Spec == Init /\ [][Next]_vars

\* The driver at the class prompt: engines are built from typed class strings.
ParseNext ==
    \/ \E input \in ClassInputs : ConstructFromInput(input)
    \/ Release

ParseSpec == Init /\ [][ParseNext]_vars

---------------------------------------------------------------------------
(* The tree driver: tree "a" is default-constructed at start-up; tree "b"  *)
(* is constructed (by default or as a copy of "a") and destructed.  The    *)
(* process ends when operator new throws (no handler catches bad_alloc)    *)
(* or when a delete is applied to memory the tree does not own.            *)

\* the number of insertions the trees hold
RECURSIVE SumOver(_, _)
SumOver(f, S) ==
    IF S = {} THEN 0
    ELSE LET x == CHOOSE y \in S : TRUE IN f[x] + SumOver(f, S \ {x})

Held == SumOver([t \in TreeNames |-> SumOver(inserted[t], Keys)], TreeNames)

\* t.insert( key )
TreeInsert(t, key, budget) ==
    /\ fault = "none" /\ tree[t].exists /\ Held < MaxInserts
    /\ LET r == Insert(nodes, t, tree[t], key, budget)
       IN  /\ nodes' = r.heap
           /\ tree' = [tree EXCEPT ![t] = r.obj]
           /\ inserted' = IF r.threw THEN inserted
                          ELSE [inserted EXCEPT ![t][key] = @ + 1]
           /\ fault' = IF r.threw THEN "bad_alloc" ELSE fault
           /\ tcall' = [op |-> "insert", target |-> t, source |-> t,
                        alloc_failed |-> r.threw]
    /\ UNCHANGED notTree

\* t.destroy_tree()
TreeDestroy(t) ==
    /\ fault = "none" /\ tree[t].exists
    /\ nodes' = DestroyTree(nodes, tree[t].root)
    /\ tree' = [tree EXCEPT ![t] = Zeroize]
    /\ inserted' = [inserted EXCEPT ![t] = NoInserts]
    /\ tcall' = [op |-> "destroy", target |-> t, source |-> t, alloc_failed |-> FALSE]
    /\ UNCHANGED <<fault, notTree>>

\* t = u: t_btree::operator=, with its test for self-assignment
TreeAssign(t, u, budget) ==
    /\ fault = "none" /\ tree[t].exists /\ tree[u].exists
    /\ IF t = u
       THEN /\ tcall' = [op |-> "assign", target |-> t, source |-> u,
                         alloc_failed |-> FALSE]
            /\ UNCHANGED <<nodes, tree, inserted, fault>>
       ELSE LET r == Assign(nodes, t, tree[t], tree[u], budget)
            IN  /\ nodes' = r.heap
                /\ tree' = [tree EXCEPT ![t] = r.obj]
                /\ inserted' = [inserted EXCEPT ![t] = IF r.threw THEN NoInserts
                                                       ELSE inserted[u]]
                /\ fault' = IF r.threw THEN "bad_alloc" ELSE fault
                /\ tcall' = [op |-> "assign", target |-> t, source |-> u,
                             alloc_failed |-> r.threw]
    /\ UNCHANGED notTree

\* t_btree<K> b;
TreeConstruct ==
    /\ fault = "none" /\ ~tree["b"].exists
    /\ tree' = [tree EXCEPT !["b"] = Zeroize]
    /\ tcall' = [op |-> "construct", target |-> "b", source |-> "b",
                 alloc_failed |-> FALSE]
    /\ UNCHANGED <<nodes, inserted, fault, notTree>>

\* t_btree<K> b( a ): the copy constructor calls operator= on an object
\* whose root and node_count were never set.  garbage is the value the
\* memory of root happens to hold; destroy_tree() follows it.  Only a null
\* value leaves the process alive: any other one is handed to delete,
\* which ends the process, after releasing the nodes of tree "a" below it
\* when it is the address of one of them.
TreeCopyConstruct(garbage, budget) ==
    /\ fault = "none" /\ ~tree["b"].exists
    /\ IF garbage = 0
       THEN LET r == Assign(nodes, "b", Zeroize, tree["a"], budget)
            IN  /\ nodes' = r.heap
                /\ tree' = [tree EXCEPT !["b"] = r.obj]
                /\ inserted' = [inserted EXCEPT !["b"] = IF r.threw THEN NoInserts
                                                         ELSE inserted["a"]]
                /\ fault' = IF r.threw THEN "bad_alloc" ELSE fault
                /\ tcall' = [op |-> "copy", target |-> "b", source |-> "a",
                             alloc_failed |-> r.threw]
       ELSE /\ nodes' = IF nodes[garbage].live THEN DestroyTree(nodes, garbage)
                        ELSE nodes
            /\ tree' = [tree EXCEPT !["b"] = [exists |-> TRUE, root |-> garbage,
                                              node_count |-> 0]]
            /\ fault' = "segv"
            /\ tcall' = [op |-> "copy", target |-> "b", source |-> "a",
                         alloc_failed |-> FALSE]
            /\ UNCHANGED inserted
    /\ UNCHANGED notTree

\* b goes out of scope: t_btree::~t_btree
TreeDestruct ==
    /\ fault = "none" /\ tree["b"].exists
    /\ nodes' = DestroyTree(nodes, tree["b"].root)
    /\ tree' = [tree EXCEPT !["b"] = NoTree]
    /\ inserted' = [inserted EXCEPT !["b"] = NoInserts]
    /\ tcall' = [op |-> "destruct", target |-> "b", source |-> "b",
                 alloc_failed |-> FALSE]
    /\ UNCHANGED <<fault, notTree>>

TreeInit == Init /\ domain = "mpz"

TreeNext ==
    \/ \E t \in TreeNames, key \in Keys, budget \in 0 .. 1 : TreeInsert(t, key, budget)
    \/ \E t \in TreeNames : TreeDestroy(t)
    \/ \E t \in TreeNames, u \in TreeNames, budget \in 0 .. MaxKey :
          TreeAssign(t, u, budget)
    \/ TreeConstruct
    \/ \E garbage \in {0} \cup NodeAddrs, budget \in 0 .. MaxKey :
          TreeCopyConstruct(garbage, budget)
    \/ TreeDestruct

TreeSpec == TreeInit /\ [][TreeNext]_vars

---------------------------------------------------------------------------
(* The orbit drivers.  Orbits "a" and "b" are default-constructed at       *)
(* start-up; orbit "c" is constructed (by default or as a copy) and        *)
(* destructed.  The process ends when operator new throws (no handler      *)
(* catches bad_alloc).                                                     *)

\* the symbol a driver appends to orbit o at length n while it fills it
\* (t1.append( i ), t2.append( 2 * i ) in orbit_test): the counts of "b"
\* run down from 255
Divisors(o, n) == IF o = "a" THEN n ELSE 255 - n

\* the symbol orbit_test appends to an orbit after a copy was made:
\* t1.append( 100 ), t2.append( 75 ), t3.append( 150 )
Marker(o) == IF o = "a" THEN 100 ELSE IF o = "b" THEN 75 ELSE 150

\* the number of markers at the end of what the orbit was given
RECURSIVE Markers(_, _)
Markers(o, given) ==
    IF given # << >> /\ given[Len(given)] = Marker(o)
    THEN 1 + Markers(o, SubSeq(given, 1, Len(given) - 1))
    ELSE 0

\* the numbers of successful allocations the driver lets an operation have
OrbitBudgets == 0 .. NodesPerOrbit

OrbitCall(op, t, m, u, threw) ==
    [op |-> op, target |-> t, middle |-> m, source |-> u, alloc_failed |-> threw]

\* o.append( divisors )
OrbitAppendTo(o, divisors, budget) ==
    /\ fault = "none"
    /\ orbit[o].exists
    /\ LET r == AppendSymbol(blocks, o, orbit[o], divisors, budget)
       IN  /\ blocks' = r.heap
           /\ orbit' = [orbit EXCEPT ![o] = r.obj]
           /\ appended' = IF r.threw THEN appended
                          ELSE [appended EXCEPT ![o] = Append(@, divisors)]
           /\ fault' = IF r.threw THEN "bad_alloc" ELSE "none"
           /\ ocall' = OrbitCall("append", o, "none", "none", r.threw)
    /\ UNCHANGED <<copied, notOrbit>>

\* o.clear()
OrbitClear(o) ==
    /\ fault = "none"
    /\ orbit[o].exists
    /\ LET r == Clear(blocks, orbit[o])
       IN  /\ blocks' = r.heap
           /\ orbit' = [orbit EXCEPT ![o] = r.obj]
    /\ appended' = [appended EXCEPT ![o] = << >>]
    /\ ocall' = OrbitCall("clear", o, "none", "none", FALSE)
    /\ UNCHANGED <<fault, copied, notOrbit>>

\* t = u, two different objects
OrbitAssign(t, u, budget) ==
    /\ fault = "none"
    /\ ~copied
    /\ t # u
    /\ orbit[t].exists /\ orbit[u].exists
    /\ LET r == AssignOrbit(blocks, t, orbit[t], orbit[u], budget)
       IN  /\ blocks' = r.heap
           /\ orbit' = [orbit EXCEPT ![t] = r.obj]
           /\ fault' = IF r.threw THEN "bad_alloc" ELSE "none"
           /\ ocall' = OrbitCall("assign", t, "none", u, r.threw)
    /\ appended' = [appended EXCEPT ![t] = appended[u]]
    /\ copied' = TRUE
    /\ UNCHANGED notOrbit

\* t = m = u, three different objects: m = u, then t = m.  When the second
\* assignment is the one that fails, the call recorded is that assignment.
OrbitChain(t, m, u, budget) ==
    /\ fault = "none"
    /\ ~copied
    /\ t # m /\ m # u /\ t # u
    /\ orbit[t].exists /\ orbit[m].exists /\ orbit[u].exists
    /\ LET r1 == AssignOrbit(blocks, m, orbit[m], orbit[u], budget)
           used == Cardinality(Chain(blocks, orbit[u].next))
           r2 == AssignOrbit(r1.heap, t, orbit[t], r1.obj, budget - used)
       IN  IF r1.threw
           THEN /\ blocks' = r1.heap
                /\ orbit' = [orbit EXCEPT ![m] = r1.obj]
                /\ appended' = [appended EXCEPT ![m] = appended[u]]
                /\ fault' = "bad_alloc"
                /\ ocall' = OrbitCall("chain", m, "none", u, TRUE)
           ELSE /\ blocks' = r2.heap
                /\ orbit' = [orbit EXCEPT ![m] = r1.obj, ![t] = r2.obj]
                /\ appended' = [appended EXCEPT ![m] = appended[u],
                                                ![t] = appended[u]]
                /\ fault' = IF r2.threw THEN "bad_alloc" ELSE "none"
                /\ ocall' = IF r2.threw THEN OrbitCall("chain", t, "none", m, TRUE)
                            ELSE OrbitCall("chain", t, m, u, FALSE)
    /\ copied' = TRUE
    /\ UNCHANGED notOrbit

\* orbit_t c;
OrbitConstruct ==
    /\ fault = "none"
    /\ ~copied
    /\ ~orbit["c"].exists
    /\ orbit' = [orbit EXCEPT !["c"] = InitOrbit]
    /\ appended' = [appended EXCEPT !["c"] = << >>]
    /\ ocall' = OrbitCall("construct", "c", "none", "none", FALSE)
    /\ UNCHANGED <<blocks, fault, copied, notOrbit>>

\* orbit_t c( u )
OrbitCopyConstruct(u, budget) ==
    /\ fault = "none"
    /\ ~copied
    /\ ~orbit["c"].exists
    /\ orbit[u].exists
    /\ LET r == CopyOrbit(blocks, "c", orbit[u], budget)
       IN  /\ blocks' = r.heap
           /\ orbit' = [orbit EXCEPT !["c"] = r.obj]
           /\ fault' = IF r.threw THEN "bad_alloc" ELSE "none"
           /\ ocall' = OrbitCall("copy", "c", "none", u, r.threw)
    /\ appended' = [appended EXCEPT !["c"] = appended[u]]
    /\ copied' = TRUE
    /\ UNCHANGED notOrbit

\* c goes out of scope: orbit_t::~orbit_t
OrbitDestruct ==
    /\ fault = "none"
    /\ orbit["c"].exists
    /\ blocks' = FreeList(blocks, orbit["c"])
    /\ orbit' = [orbit EXCEPT !["c"] = NoOrbit]
    /\ appended' = [appended EXCEPT !["c"] = << >>]
    /\ ocall' = OrbitCall("destruct", "c", "none", "none", FALSE)
    /\ UNCHANGED <<fault, copied, notOrbit>>

OrbitStart == Init /\ domain = "mpz"

\* The first driver grows and clears "a" and "b", each on its own.
OrbitNext ==
    \/ \E o \in {"a", "b"}, budget \in {0, 1} :
          /\ orbit[o].path_length < MaxLen
          /\ OrbitAppendTo(o, Divisors(o, orbit[o].path_length), budget)
    \/ \E o \in {"a", "b"} : OrbitClear(o)

OrbitSpec == OrbitStart /\ [][OrbitNext]_vars

\* The second driver follows orbit_test: it fills "a" and "b" in turn, as
\* the loop of the test does, makes one copy (an assignment, a chained
\* assignment or a copy construction), and then appends markers to the
\* orbits and clears them.
CopyNext ==
    \/ \E budget \in {0, 1} :
          /\ ~copied
          /\ orbit["a"].path_length < MaxFill
          /\ orbit["a"].path_length = orbit["b"].path_length
          /\ OrbitAppendTo("a", Divisors("a", orbit["a"].path_length), budget)
    \/ \E budget \in {0, 1} :
          /\ ~copied
          /\ orbit["b"].path_length < orbit["a"].path_length
          /\ OrbitAppendTo("b", Divisors("b", orbit["b"].path_length), budget)
    \/ OrbitConstruct
    \/ \E t, u \in OrbitNames, budget \in OrbitBudgets : OrbitAssign(t, u, budget)
    \/ \E t, m, u \in OrbitNames, budget \in OrbitBudgets :
          OrbitChain(t, m, u, budget)
    \/ \E u \in OrbitNames, budget \in OrbitBudgets : OrbitCopyConstruct(u, budget)
    \/ \E o \in OrbitNames, budget \in {0, 1} :
          /\ copied
          /\ Markers(o, appended[o]) < MaxTail
          /\ OrbitAppendTo(o, Marker(o), budget)
    \/ \E o \in OrbitNames : copied /\ OrbitClear(o)
    \/ copied /\ OrbitDestruct

CopySpec == OrbitStart /\ [][CopyNext]_vars

\* the symbols the third driver appends at length n: the first two symbols
\* of the root and the first symbol of every later block vary
Compared(n) ==
    IF n % BlockSize = 0 \/ n = 1 THEN {1, 2} ELSE {1}

\* the orbit that is kept no shorter than o
Longer(o) == IF o = "c" THEN "b" ELSE "a"

\* The third driver builds three orbits by appends, to be compared; "a" is
\* kept the longest and "c" the shortest, and every allocation succeeds.
CompareNext ==
    \/ \E o \in OrbitNames : \E divisors \in Compared(orbit[o].path_length) :
          /\ orbit[o].path_length < MaxCompared
          /\ o # "a" => orbit[o].path_length < orbit[Longer(o)].path_length
          /\ OrbitAppendTo(o, divisors, 1)
    \/ OrbitConstruct

CompareSpec == OrbitStart /\ [][CompareNext]_vars

---------------------------------------------------------------------------
\* The driver at the parent search: an engine is built from an integer and
\* asked for a parent.
AncestryNext ==
    \/ \E start \in Starts : AssignInt(start)
    \/ \E scale \in 1 .. MaxScale : CallAncestry(scale)
    \/ Release

AncestrySpec == Init /\ [][AncestryNext]_vars

---------------------------------------------------------------------------
(* The ancestry driver: option 'd' of the menu builds an engine for the    *)
(* integer typed in and calls ancestry( ++scale ) on it, with scale        *)
(* starting at 0 and keeping the value each call leaves in it, until the   *)
(* number of parents asked for was listed or 0 was returned.  Each parent  *)
(* returned is given to an engine of its own, which is printed.            *)

\* next = p.ancestry( ++scale ), and P p( next ) when next is not 0
NextAncestor ==
    /\ pc \in {"built", "searched"}
    /\ Len(ancestors) < MaxParents
    /\ ancestors # << >> => ancestors[Len(ancestors)] # 0
    /\ LET r == Ancestry(domain, p.start_int, anc.scale + 1)
           s == SetPath(domain, speed, r.parent, 0)
       IN  /\ anc' = [scale_in |-> anc.scale + 1, returned |-> r.returned,
                      parent |-> r.parent, scale |-> r.scale]
           /\ pc' = IF r.returned THEN "searched" ELSE "searching"
           /\ ancestors' = IF r.returned THEN Append(ancestors, r.parent)
                           ELSE ancestors
           /\ IF r.returned /\ r.parent # 0
              THEN /\ q' = [s.obj EXCEPT !.ec_len = SetEc(domain, r.parent)]
                   /\ qlast' = [op |-> "assign", start |-> r.parent,
                                max_factors |-> 0, route |-> s.route,
                                reached |-> s.reached]
              ELSE UNCHANGED <<q, qlast>>
    /\ UNCHANGED <<domain, speed, p, last, out>>
    /\ UNCHANGED <<fault, nodes, tree, inserted, tcall,
                   blocks, orbit, appended, ocall, copied, before, scan, verdict>>

\* the loop of the driver ends and its engines go out of scope
EndAncestors ==
    /\ pc \in {"built", "searched"}
    /\ pc' = "idle"
    /\ p' = PathInit(0)
    /\ last' = NoCall
    /\ q' = PathInit(0)
    /\ qlast' = NoCall
    /\ anc' = NoSearch
    /\ ancestors' = << >>
    /\ UNCHANGED <<domain, speed, out>>
    /\ UNCHANGED <<fault, nodes, tree, inserted, tcall,
                   blocks, orbit, appended, ocall, copied, before, scan, verdict>>

DriverNext ==
    \/ \E start \in Starts : AssignInt(start)
    \/ NextAncestor
    \/ EndAncestors

DriverSpec == Init /\ [][DriverNext]_vars

---------------------------------------------------------------------------
(* Re-assignment of an engine that already holds a path, as path_test      *)
(* does with one67 = four47; one67 = 167.  setpath works on the members    *)
(* of the object it is called on, after init/zeroize have cleared them.    *)

\* a zeroize that leaves the error flags of the engine as they were
ZeroizeKeepsFlags(obj) ==
    [start_int    |-> 0,
     int_sign     |-> 0,
     max_int      |-> 0,
     orb          |-> OrbitInit,
     path_factors |-> 0,
     ec_factors   |-> 0,
     next_factors |-> 0,
     ec_len       |-> 0,
     error_mask   |-> obj.error_mask]

\* t_path::zeroize on an engine: every integer member is set to 0 and the
\* orbit is cleared
ZeroizePath(obj) ==
    [obj EXCEPT !.start_int    = 0,
                !.max_int      = 0,
                !.int_sign     = 0,
                !.path_factors = 0,
                !.ec_factors   = 0,
                !.next_factors = 0,
                !.ec_len       = 0,
                !.error_mask   = 0,
                !.orb          = OrbitInit]

\* t_path::init( start ) on an engine
InitPath(obj, start) ==
    [ZeroizePath(obj) EXCEPT !.start_int = start, !.int_sign = Sgn(start)]

\* obj.setpath( start, max_factors ): the walk continues from the members
\* init has left in the object
SetPathOn(dom, spd, obj, start, max_factors) ==
    LET i == InitPath(obj, start)
        st0 == [current_int  |-> start,
                max_int      |-> start,
                orb          |-> i.orb,
                path_factors |-> i.path_factors,
                error_mask   |-> i.error_mask,
                route        |-> "even"]
        w == IF CMod(start, divisor) = 0
             THEN [st0 EXCEPT !.orb = OrbitAppend(@, 1), !.path_factors = @ + 1]
             ELSE Walk(dom, spd, start, max_factors,
                       [st0 EXCEPT !.orb = OrbitAppend(@, 0)])
        base == [i EXCEPT !.max_int = w.max_int,
                          !.orb = w.orb,
                          !.path_factors = w.path_factors,
                          !.error_mask = w.error_mask]
    IN  [obj |-> IF w.route = "budget"
                 THEN base
                 ELSE [base EXCEPT
                         !.ec_factors = ClassFactorsOf(w.path_factors, w.current_int),
                         !.next_factors = NextFactorsOf(dom, start, w.current_int)],
         route |-> w.route,
         reached |-> w.current_int]

\* p = n on the engine that holds a path: setpath( n ); set_ec( n )
Reassign(n) ==
    /\ pc = "built"
    /\ LET r == SetPathOn(domain, speed, p, n, 0)
       IN  /\ p' = [r.obj EXCEPT !.ec_len = SetEc(domain, n)]
           /\ last' = [op |-> "assign", start |-> n, max_factors |-> 0,
                       route |-> r.route, reached |-> r.reached]
    /\ before' = p
    /\ pc' = "reassigned"
    /\ UNCHANGED <<domain, speed, out, q, qlast, anc>>
    /\ UNCHANGED <<fault, nodes, tree, inserted, tcall,
                   blocks, orbit, appended, ocall, copied, ancestors, scan, verdict>>

\* p.setpath( n, max_factors ) on the engine that holds a path
ResetPath(n, max_factors) ==
    /\ pc = "built"
    /\ LET r == SetPathOn(domain, speed, p, n, max_factors)
       IN  /\ p' = r.obj
           /\ last' = [op |-> "setpath", start |-> n,
                       max_factors |-> max_factors,
                       route |-> r.route, reached |-> r.reached]
    /\ before' = p
    /\ pc' = "reassigned"
    /\ UNCHANGED <<domain, speed, out, q, qlast, anc>>
    /\ UNCHANGED <<fault, nodes, tree, inserted, tcall,
                   blocks, orbit, appended, ocall, copied, ancestors, scan, verdict>>

\* the engine goes out of scope
Discard ==
    /\ pc = "reassigned"
    /\ pc' = "idle"
    /\ p' = PathInit(0)
    /\ last' = NoCall
    /\ before' = PathInit(0)
    /\ UNCHANGED <<domain, speed, out, q, qlast, anc>>
    /\ UNCHANGED <<fault, nodes, tree, inserted, tcall,
                   blocks, orbit, appended, ocall, copied, ancestors, scan, verdict>>

\* the starts of the engines that are re-assigned: the integers 4k + 3,
\* whose walks take more than one leg or end on an overflow
Reassigned == {start \in Starts : start % 4 = 3}

ReassignNext ==
    \/ ToggleSpeed
    \/ \E start \in Reassigned : AssignInt(start)
    \/ \E n \in Starts : Reassign(n)
    \/ \E n \in Starts, b \in {0, MaxBudget} : ResetPath(n, b)
    \/ Discard

ReassignSpec == Init /\ [][ReassignNext]_vars

---------------------------------------------------------------------------
(* The bulk scan: option 'l' of the menu calls t_convergent_path with a    *)
(* signed path length.  The scan builds an engine for every integer of the *)
(* range (every fourth one when it skips), inserts the orbits that stay    *)
(* within the path length into one tree per orbit length, and reports the  *)
(* frequencies per length and their total.                                 *)

ScanNext ==
    \/ ToggleSpeed
    \/ \E n \in -MaxPathLength .. MaxPathLength : ConvergentStart(n)
    \/ ConvergentPass
    \/ ConvergentReport
    \/ ConvergentReturn

ScanSpec == Init /\ [][ScanNext]_vars

---------------------------------------------------------------------------
(* The comparison driver builds two engines and compares them, as a tree   *)
(* keyed by paths does on insert and search.  Besides the starts of the    *)
(* domain, the multiple precision engines are given the integers that lie  *)
(* a number of laps of 4096 below -17: they walk the eight symbols of the  *)
(* cycle of -17 and go on.                                                 *)

Laps == {-17 - k * 4096 : k \in 1 .. MaxLaps}

\* P q( start )
ConstructSecond(start) ==
    /\ pc = "built"
    /\ LET r == SetPath(domain, speed, start, 0)
       IN  /\ q' = [r.obj EXCEPT !.ec_len = SetEc(domain, start)]
           /\ qlast' = [op |-> "assign", start |-> start, max_factors |-> 0,
                        route |-> r.route, reached |-> r.reached]
    /\ pc' = "paired"
    /\ UNCHANGED <<domain, speed, p, last, out, anc>>
    /\ UNCHANGED structs

\* p == q and p != q
ComparePaths ==
    /\ pc = "paired"
    /\ verdict' = [compared |-> TRUE,
                   equal |-> PathEqual(p, q),
                   not_equal |-> PathNotEqual(p, q)]
    /\ pc' = "compared"
    /\ UNCHANGED <<domain, speed, p, last, out, q, qlast, anc>>
    /\ UNCHANGED <<fault, nodes, tree, inserted, tcall,
                   blocks, orbit, appended, ocall, copied, ancestors, before, scan>>

\* both engines go out of scope
ReleasePair ==
    /\ pc = "compared"
    /\ pc' = "idle"
    /\ p' = PathInit(0)
    /\ last' = NoCall
    /\ q' = PathInit(0)
    /\ qlast' = NoCall
    /\ verdict' = NoVerdict
    /\ UNCHANGED <<domain, speed, out, anc>>
    /\ UNCHANGED <<fault, nodes, tree, inserted, tcall,
                   blocks, orbit, appended, ocall, copied, ancestors, before, scan>>

PairNext ==
    \/ \E start \in Starts \cup Laps :
          (start \in Starts \/ domain = "mpz") /\ AssignInt(start)
    \/ \E start \in Starts \cup Laps :
          (start \in Starts \/ domain = "mpz") /\ ConstructSecond(start)
    \/ ComparePaths
    \/ ReleasePair

PairSpec == Init /\ [][PairNext]_vars

---------------------------------------------------------------------------
(* Vocabulary of the properties: exact integer arithmetic, independent of  *)
(* the integer domain of the engine.                                       *)

Magnitude(x) == IF x < 0 THEN -x ELSE x

IsOdd(x) == x % 2 = 1

\* M*x + A computed exactly
ExactConnection(x) == multiplier * x + addend

\* x is a value of the engine's integer domain
Representable(x) == domain = "mpz" \/ (MinInt <= x /\ x <= MaxInt)

\* the public observables of the engine p
PathSymbols == OrbitSymbols(p.orb)

PathLength == p.orb.path_length

\* p holds the result of a call described by last
Built == pc # "idle"

\* the call ended by convergence (even start or a converged walk)
EndedNormally == last.route \in {"even", "converged"}

\* the value after i legs when the orbit syms is replayed exactly from start
RECURSIVE Replay(_, _, _)
Replay(start, syms, i) ==
    IF i = 0 THEN start
    ELSE ExactConnection(Replay(start, syms, i - 1)) \div Pow2(syms[i + 1])

\* the exact connection value that leg i of the replay starts from
ReplayConnection(start, syms, i) == ExactConnection(Replay(start, syms, i - 1))

\* no leg of the orbit was derived from a connection outside the domain
NoLegFromWrappedValue(start, syms) ==
    \A i \in 1 .. Len(syms) - 1 : Representable(ReplayConnection(start, syms, i))

\* halving c exactly j times gives an odd value or one below |start|
StopsAfter(c, j, start) ==
    /\ c % Pow2(j) = 0
    /\ LET v == c \div Pow2(j)
       IN  IsOdd(v) \/ Magnitude(v) < Magnitude(start)

RECURSIVE SumSeq(_)
SumSeq(sq) == IF sq = << >> THEN 0 ELSE Head(sq) + SumSeq(Tail(sq))

\* number of factors of 2 in a nonzero integer
RECURSIVE FactorsOfTwo(_)
FactorsOfTwo(n) == IF n % 2 = 0 THEN 1 + FactorsOfTwo(n \div 2) ELSE 0

SetMax(S) == CHOOSE m \in S : \A x \in S : x <= m

---------------------------------------------------------------------------
(* Properties *)

\* C1: for an odd start whose walk converged (no budget exit) and met no
\* overflow, the orbit is [0, l1..lk], k >= 1, every l_i >= 1; replayed
\* exactly, every division by D^(l_i) is exact, l_i is the least number of
\* halvings after which the value is odd or below |start| in magnitude, the
\* value stays above |start| after every leg but the last and is at most
\* |start| after the last.
C1_OddWalkLegs ==
    (Built /\ IsOdd(last.start) /\ last.route = "converged"
       /\ NoLegFromWrappedValue(last.start, PathSymbols))
    => LET syms == PathSymbols
           k == Len(syms) - 1
       IN  /\ k >= 1
           /\ syms[1] = 0
           /\ PathLength = k + 1
           /\ \A i \in 1 .. k :
                LET c == ReplayConnection(last.start, syms, i)
                    x == Replay(last.start, syms, i)
                IN  /\ syms[i + 1] >= 1
                    /\ StopsAfter(c, syms[i + 1], last.start)
                    /\ \A j \in 1 .. syms[i + 1] - 1 : ~StopsAfter(c, j, last.start)
                    /\ (i < k => Magnitude(x) > Magnitude(last.start))
                    /\ (i = k => Magnitude(x) <= Magnitude(last.start))

\* C1 witness: a converged walk of at least two legs in the bounded domain
C1_Witness ==
    /\ pc = "built" /\ domain = "int64" /\ last.route = "converged"
    /\ Len(PathSymbols) >= 3
    /\ NoLegFromWrappedValue(last.start, PathSymbols)

\* C2: for every start divisible by D (positive, negative or zero) the orbit
\* is [1], the path length 1, the path-factor total 1 and error() is 0.
C2_EvenStart ==
    (Built /\ ~IsOdd(last.start))
    => /\ PathSymbols = <<1>>
       /\ PathLength = 1
       /\ p.path_factors = 1
       /\ MaskOr(p.error_mask, p.orb.error_mask) = 0

\* C2 witness: a negative even start computed in speed mode under a budget
C2_Witness ==
    /\ pc = "built" /\ speed /\ last.start < 0 /\ ~IsOdd(last.start)
    /\ last.max_factors = -1

\* C3, as stated: start 5 gives orbit [0, 4], path length 2, path factors 4.
C3_Original ==
    (Built /\ last.start = 5)
    => /\ PathSymbols = <<0, 4>>
       /\ PathLength = 2
       /\ p.path_factors = 4

\* C3, amended: start 5 gives path-factor total 2 (16 -> 8 -> 4 stops at the
\* first value below 5); the orbit is [0, 2] with path length 2, except on
\* the budget early exit, where the leg is not appended and the orbit is [0].
C3_StartFive ==
    (Built /\ last.start = 5)
    => /\ p.path_factors = 2
       /\ (last.route # "budget" => PathSymbols = <<0, 2>> /\ PathLength = 2)
       /\ (last.route = "budget" => PathSymbols = <<0>> /\ PathLength = 1)

\* C3 witness: the walk from 5 has converged
C3_Witness == pc = "built" /\ last.start = 5 /\ last.route = "converged"

\* C4: in the bounded domain no orbit element is derived from a connection
\* that is not representable, and a walk stopped for overflow has the
\* overflow bit set and stopped on a value whose connection is not
\* representable.
C4_OverflowFlagged ==
    (Built /\ domain = "int64")
    => /\ NoLegFromWrappedValue(last.start, PathSymbols)
       /\ (last.route = "overflow"
             => /\ p.error_mask % 2 = 1
                /\ ~Representable(ExactConnection(last.reached)))
       /\ (p.error_mask % 2 = 1 => last.route = "overflow")

\* C5: on every return route the path-factor total is the sum of the orbit.
C5_FactorsAreOrbitSum ==
    Built => p.path_factors = SumSeq(PathSymbols)

\* C6: with no budget supplied (assignment from an integer, max_factors at
\* its default 0) there is no budget early exit and the result is the one
\* computed with speed off.
C6_NoBudgetNoEarlyExit ==
    (Built /\ last.op = "assign")
    => /\ last.route # "budget"
       /\ p = [SetPath(domain, FALSE, last.start, 0).obj
                 EXCEPT !.ec_len = SetEc(domain, last.start)]

\* C7: for a nonzero start whose computation ended normally, the class-factor
\* total is the path-factor total plus the factors of D left in the value
\* reached at convergence: for an even start n the factors of D in n.
C7_ClassFactors ==
    (Built /\ last.start # 0 /\ EndedNormally
       /\ NoLegFromWrappedValue(last.start, PathSymbols))
    => IF IsOdd(last.start)
       THEN p.ec_factors = p.path_factors
              + FactorsOfTwo(Replay(last.start, PathSymbols, Len(PathSymbols) - 1))
       ELSE p.ec_factors = FactorsOfTwo(last.start)

\* C8: max() is the largest magnitude visited: |start| or the magnitude of
\* a connection value of the walk.
C8_MaxMagnitude ==
    (Built /\ EndedNormally /\ NoLegFromWrappedValue(last.start, PathSymbols))
    => p.max_int = SetMax({Magnitude(last.start)} \cup
                          {Magnitude(ReplayConnection(last.start, PathSymbols, i)) :
                              i \in 1 .. Len(PathSymbols) - 1})

\* C9: flow(digits) is a sign ('+' or '-') exactly when digits > 0 and the
\* start is nonzero, then exactly digits symbols, the first |start mod 6| in
\* '0'..'5', the later ones '0' or '1'; flow(0) is empty; a negative argument
\* stands for the stored class length.
C9_FlowShape ==
    (pc \in {"rendered", "parsed"})
    => LET d == IF out.digits < 0
                THEN (IF p.ec_len < 0 THEN 0 ELSE p.ec_len)
                ELSE out.digits
           signed == d > 0 /\ p.start_int # 0
           off == IF signed THEN 1 ELSE 0
           str == out.str
       IN  /\ Len(str) = d + off
           /\ (signed => str[1] = IF p.start_int > 0 THEN 43 ELSE 45)
           /\ (d > 0 => str[off + 1] = 48 + (Magnitude(p.start_int) % 6))
           /\ \A i \in 2 .. d : str[off + i] \in {48, 49}
           /\ (d = 0 => str = << >>)

\* C9 witness: the default-length class string of a negative start
C9_Witness ==
    /\ pc = "rendered" /\ out.digits = -1 /\ p.start_int < 0
    /\ Len(out.str) >= 4

\* C10: an engine built from n, rendered with flow(classLength()) and parsed
\* back into a second engine gives the same start, class length and orbit.
C10_RoundTrip ==
    (pc = "parsed" /\ last.op = "assign" /\ out.digits \in {-1, p.ec_len})
    => /\ q.start_int = p.start_int
       /\ q.ec_len = p.ec_len
       /\ OrbitSymbols(q.orb) = OrbitSymbols(p.orb)

\* a class string in the documented format: optional sign, one symbol in
\* '0'..'5', then symbols in {'0','1'}
ClassBody(s) == IF Len(s) > 0 /\ s[1] \in {43, 45} THEN Tail(s) ELSE s

WellFormed(s) ==
    LET body == ClassBody(s)
    IN  /\ Len(body) >= 1
        /\ body[1] \in 48 .. 53
        /\ \A i \in 2 .. Len(body) : body[i] \in {48, 49}

\* sum of b_i * M * D * 2^(i-1) over the symbols after the first, exactly
RECURSIVE ClassTail(_, _)
ClassTail(body, i) ==
    IF i > Len(body) THEN 0
    ELSE (body[i] - 48) * multiplier * divisor * Pow2(i - 2) + ClassTail(body, i + 1)

\* the integer a well-formed class string stands for, computed exactly
ClassValue(s) ==
    LET body == ClassBody(s)
        sign == IF Len(s) > 0 /\ s[1] = 45 THEN -1 ELSE 1
    IN  sign * ((body[1] - 48) + ClassTail(body, 2))

\* C11: an engine built from a typed class string starts at the value of the
\* string when the string is well formed and that value is representable in
\* the domain, and at 0 for every other string (never at a wrapped value).
C11_ParseClassString ==
    (pc = "parsed" /\ out.op = "input")
    => IF WellFormed(out.str) /\ Representable(ClassValue(out.str))
       THEN q.start_int = ClassValue(out.str)
       ELSE q.start_int = 0

\* n with every factor of 2 removed, computed exactly (0 for 0)
RECURSIVE RemoveFactors(_)
RemoveFactors(n) ==
    IF n # 0 /\ n % 2 = 0 THEN RemoveFactors(n \div 2) ELSE n

\* C12: ancestry(scale), scale >= 1, returns 0 at once, with scale as it was,
\* exactly when start is divisible by D or by M; for every other start it
\* returns a nonzero p whose connection, with all factors of D removed, is
\* start.
C12_Ancestry ==
    (pc \in {"searched", "searching"})
    => /\ anc.returned
       /\ IF p.start_int % divisor = 0 \/ p.start_int % multiplier = 0
          THEN anc.parent = 0 /\ anc.scale = anc.scale_in
          ELSE /\ anc.parent # 0
               /\ RemoveFactors(ExactConnection(anc.parent)) = p.start_int

---------------------------------------------------------------------------
(* Properties of the frequency tree *)

\* the trees that can be observed: constructed, in a running process
Observable(t) == fault = "none" /\ tree[t].exists

\* number of insertions tree t holds, and the keys they were made with
Insertions(t) == SumOver(inserted[t], Keys)

DistinctKeys(t) == {k \in Keys : inserted[t][k] > 0}

\* the nodes of tree t
NodesOf(heap, obj) == Subtree(heap, obj.root)

\* C13: search(k) on a tree is the number of times k was inserted since the
\* tree was constructed or last destroyed (for a copy: the number its source
\* held), and 0 for every key never inserted, also one outside the keys in
\* use.
C13_SearchIsMultiset ==
    \A t \in TreeNames :
        Observable(t)
        => /\ \A k \in Keys : Search(nodes, tree[t], k) = inserted[t][k]
           /\ Search(nodes, tree[t], 0) = 0
           /\ Search(nodes, tree[t], MaxKey + 1) = 0

\* C13 witness: a tree destroyed and filled again holds a key inserted twice
\* next to a key it does not hold
C13_Witness ==
    /\ Observable("a") /\ tcall.op = "insert"
    /\ \E k \in Keys, j \in Keys :
          /\ inserted["a"][k] = 2 /\ inserted["a"][j] = 0
          /\ \E i \in Keys : i # k /\ inserted["a"][i] = 1

\* C14: on a tree that holds N insertions each of the four traversals
\* (forward or reverse, with or without a visitor) returns N, and nodes() is
\* the number of distinct keys inserted: at most N, and N exactly when all
\* inserted keys are distinct.
C14_TraverseSum ==
    \A t \in TreeNames :
        Observable(t)
        => /\ \A func \in BOOLEAN, forward \in BOOLEAN :
                Iterate(nodes, tree[t], func, forward).sum = Insertions(t)
           /\ Nodes(tree[t]) = Cardinality(DistinctKeys(t))
           /\ Nodes(tree[t]) <= Insertions(t)
           /\ (Nodes(tree[t]) = Insertions(t)) <=> (\A k \in Keys : inserted[t][k] <= 1)

\* C14 witness: a tree with a repeated key, so that nodes() < N
C14_Witness ==
    /\ Observable("a") /\ Insertions("a") = MaxInserts
    /\ Nodes(tree["a"]) = 2

\* C15: in every tree keys are unique, the keys below a node's left link
\* are smaller and those below its right link larger, every count is at
\* least 1; the forward traversal calls the visitor once per node with its
\* (key, count) in strictly ascending key order, the reverse traversal in
\* strictly descending order.
C15_OrderedTree ==
    \A t \in TreeNames :
        Observable(t)
        => LET S == NodesOf(nodes, tree[t])
               fwd == Iterate(nodes, tree[t], TRUE, TRUE).calls
               rev == Iterate(nodes, tree[t], TRUE, FALSE).calls
           IN  /\ \A a \in S, b \in S : a # b => nodes[a].key_value # nodes[b].key_value
               /\ \A a \in S :
                    /\ nodes[a].live /\ nodes[a].count >= 1
                    /\ \A b \in Subtree(nodes, nodes[a].left) :
                          nodes[b].key_value < nodes[a].key_value
                    /\ \A b \in Subtree(nodes, nodes[a].right) :
                          nodes[b].key_value > nodes[a].key_value
               /\ Len(fwd) = Cardinality(S) /\ Len(rev) = Cardinality(S)
               /\ \A i \in 1 .. Len(fwd) :
                    \E a \in S : fwd[i] = <<nodes[a].key_value, nodes[a].count>>
               /\ \A i \in 1 .. Len(rev) :
                    \E a \in S : rev[i] = <<nodes[a].key_value, nodes[a].count>>
               /\ \A i \in 1 .. Len(fwd) - 1 : fwd[i][1] < fwd[i + 1][1]
               /\ \A i \in 1 .. Len(rev) - 1 : rev[i][1] > rev[i + 1][1]

\* C15 witness: a tree of three nodes in which the root has two children
C15_Witness ==
    /\ Observable("a") /\ Nodes(tree["a"]) = 3
    /\ nodes[tree["a"].root].left # 0 /\ nodes[tree["a"].root].right # 0
    /\ \E k \in Keys : inserted["a"][k] > 1

\* the shape of a subtree with its (key, count) pairs, addresses left out
RECURSIVE Shape(_, _)
Shape(heap, leaf) ==
    IF leaf = 0 THEN << >>
    ELSE <<heap[leaf].key_value, heap[leaf].count,
           Shape(heap, heap[leaf].left), Shape(heap, heap[leaf].right)>>

\* the nodes released by a step
Released == {a \in NodeAddrs : nodes[a].live /\ ~nodes'[a].live}

\* C16: a copy construction or an assignment that meets no allocation
\* failure leaves the target a structural clone of the source (same shape,
\* same key/count pairs, same nodes()), releases only nodes the target
\* owned, leaves the source as it was and shares no node with it; an
\* assignment of a tree to itself changes nothing; an insert or a destroy
\* on one tree leaves the other tree as it was.
C16_DeepCopy ==
    [][ /\ (tcall'.op \in {"copy", "assign"} /\ ~tcall'.alloc_failed)
           => LET t == tcall'.target
                  u == tcall'.source
              IN  IF t = u THEN UNCHANGED <<nodes, tree>>
                  ELSE /\ fault' = "none"
                       /\ Shape(nodes', tree'[t].root) = Shape(nodes, tree[u].root)
                       /\ Nodes(tree'[t]) = Nodes(tree[u])
                       /\ tree'[u] = tree[u]
                       /\ \A a \in NodesOf(nodes, tree[u]) : nodes'[a] = nodes[a]
                       /\ NodesOf(nodes', tree'[t]) \cap NodesOf(nodes', tree'[u]) = {}
                       /\ Released \subseteq NodesOf(nodes, tree[t])
        /\ (tcall'.op \in {"insert", "destroy"})
           => \A u \in TreeNames \ {tcall'.target} :
                /\ tree'[u] = tree[u]
                /\ \A a \in NodesOf(nodes, tree[u]) : nodes'[a] = nodes[a]
      ]_vars

\* C17: when the creation of a node fails during an insert or a copy, the
\* trees are as they were before the operation and the process goes on.
C17_AllocFailure ==
    [][ tcall'.alloc_failed
          => /\ tree' = tree
             /\ \A t \in TreeNames : Shape(nodes', tree'[t].root) = Shape(nodes, tree[t].root)
             /\ fault' = "none" ]_vars

---------------------------------------------------------------------------
(* Properties of the orbit objects *)

\* the decimal numeral of a count 0 .. 255
Decimal(n) ==
    IF n < 10 THEN <<48 + n>>
    ELSE IF n < 100 THEN <<48 + (n \div 10), 48 + (n % 10)>>
    ELSE <<48 + (n \div 100), 48 + ((n \div 10) % 10), 48 + (n % 10)>>

\* the numerals of the counts, in order, with one space between neighbours
RECURSIVE Rendering(_)
Rendering(counts) ==
    IF Len(counts) = 1 THEN Decimal(counts[1])
    ELSE Decimal(Head(counts)) \o <<32>> \o Rendering(Tail(counts))

\* the orbit objects a running process can use
Usable == IF fault = "none" THEN {o \in OrbitNames : orbit[o].exists} ELSE {}

\* what an object holds is what it was given
HoldsAppended(o) ==
    /\ PathLen(orbit[o]) = Len(appended[o])
    /\ Len(appended[o]) >= 1 => Path(blocks, orbit[o]) = Rendering(appended[o])

\* C18: an orbit is an append-only sequence.  After any appends of counts
\* 0 .. 255 and clears, with at least one append since the last clear,
\* path_len() is the number of appends since the last clear and path() is
\* those counts in insertion order, in decimal, separated by single spaces,
\* whatever the number of 8-symbol blocks; an append leaves every earlier
\* symbol as it was.
C18_AppendOnly ==
    [][ /\ \A o \in Usable' : HoldsAppended(o)'
        /\ (ocall'.op = "append" /\ ~ocall'.alloc_failed)
             => LET o == ocall'.target
                IN  \A i \in 1 .. PathLen(orbit[o]) :
                       StoredSymbols(blocks', orbit'[o])[i]
                           = StoredSymbols(blocks, orbit[o])[i] ]_vars

\* an append has brought an orbit into its third block
C18_Witness ==
    /\ ocall.op = "append" /\ ~ocall.alloc_failed
    /\ PathLen(orbit[ocall.target]) > 2 * BlockSize
    /\ HoldsAppended(ocall.target)

\* two orbits, each on its own heap, have the same length and the same
\* path() (compared when there is a symbol to render)
SameOrbit(heap1, obj1, heap2, obj2) ==
    /\ PathLen(obj1) = PathLen(obj2)
    /\ PathLen(obj1) >= 1 => Path(heap1, obj1) = Path(heap2, obj2)

\* the object keeps its length and its path() across the step
Untouched(o) == SameOrbit(blocks', orbit'[o], blocks, orbit[o])

\* C19: copies of an orbit are deep.  After t = u or orbit_t t( u ), for
\* any length of u and any prior contents of t, t has the length and the
\* path() that u had and u keeps its own; the same holds for both targets
\* of a chained assignment t = m = u; and an append or a clear on one orbit
\* never changes the length or the path() of another.
C19_DeepCopyOrbit ==
    [][ /\ (ocall'.op \in {"assign", "copy"} /\ ~ocall'.alloc_failed)
             => /\ SameOrbit(blocks', orbit'[ocall'.target],
                             blocks, orbit[ocall'.source])
                /\ Untouched(ocall'.source)
        /\ (ocall'.op = "chain" /\ ~ocall'.alloc_failed)
             => /\ SameOrbit(blocks', orbit'[ocall'.target],
                             blocks, orbit[ocall'.source])
                /\ SameOrbit(blocks', orbit'[ocall'.middle],
                             blocks, orbit[ocall'.source])
                /\ Untouched(ocall'.source)
        /\ (ocall'.op \in {"append", "clear"} /\ ~ocall'.alloc_failed)
             => \A o \in Usable \ {ocall'.target} : Untouched(o) ]_vars

\* after a chained assignment from an orbit of two blocks, one of the three
\* orbits was appended to: it holds the marker, the other two do not
C19_Witness ==
    /\ ocall.op = "append" /\ ~ocall.alloc_failed
    /\ \A o \in OrbitNames : o \in Usable /\ HoldsAppended(o)
    /\ \A o \in OrbitNames \ {ocall.target} :
          /\ Len(appended[o]) > BlockSize
          /\ appended[ocall.target] = Append(appended[o], Marker(ocall.target))

\* the allocation-error bit of an error mask is set
MemoryFlagged(mask) == (mask \div memory) % 2 = 1

\* the number of symbols the root and the chain behind it have room for
Capacity(heap, obj) == BlockSize * (1 + Cardinality(Chain(heap, obj.next)))

\* C20: when the allocation of a block fails during an operation on an
\* orbit, the orbit's allocation-error flag is set and the operation is a
\* no-op: a failed append leaves the length and the stored symbols as they
\* were, and after a failed copy or assignment the length of the target is
\* at most the number of symbols its chain of blocks holds.
C20_AllocFailureOrbit ==
    [][ ocall'.alloc_failed
          => LET t == ocall'.target
             IN  /\ MemoryFlagged(orbit'[t].error_mask)
                 /\ ocall'.op = "append"
                      => /\ PathLen(orbit'[t]) = PathLen(orbit[t])
                         /\ StoredSymbols(blocks', orbit'[t])
                               = StoredSymbols(blocks, orbit[t])
                 /\ ocall'.op \in {"assign", "chain", "copy"}
                      => PathLen(orbit'[t]) <= Capacity(blocks', orbit'[t]) ]_vars

---------------------------------------------------------------------------
(* Properties of the orbit comparison *)

\* the keys of the blocks of an orbit, the root first
RECURSIVE KeysFrom(_, _)
KeysFrom(heap, ptr) ==
    IF ptr = 0 THEN << >> ELSE <<heap[ptr].key>> \o KeysFrom(heap, heap[ptr].next)

BlockKeys(o) == <<orbit[o].key>> \o KeysFrom(blocks, orbit[o].next)

\* the number of blocks two orbits both have
Shared(x, y) ==
    IF Len(BlockKeys(x)) < Len(BlockKeys(y)) THEN Len(BlockKeys(x))
    ELSE Len(BlockKeys(y))

\* the blocks both orbits have that differ
Differing(x, y) == {i \in 1 .. Shared(x, y) : BlockKeys(x)[i] # BlockKeys(y)[i]}

\* block k comes before block r when its symbol is the smaller one at the
\* first place where the two differ
Before(k, r) ==
    LET places == {i \in 1 .. BlockSize : k[i] # r[i]}
        first == CHOOSE i \in places : \A j \in places : i <= j
    IN  places # {} /\ k[first] < r[first]

C22_TotalOrder ==
    \A a \in Usable, b \in Usable, c \in Usable :
        LET eq(x, y) == OrbitEqual(blocks, orbit[x], orbit[y])
            lt(x, y) == OrbitLess(blocks, orbit[x], orbit[y])
            gt(x, y) == OrbitGreater(blocks, orbit[x], orbit[y])
        IN  /\ (lt(a, b) /\ ~eq(a, b) /\ ~gt(a, b))
               \/ (~lt(a, b) /\ eq(a, b) /\ ~gt(a, b))
               \/ (~lt(a, b) /\ ~eq(a, b) /\ gt(a, b))
            /\ (eq(a, b) /\ eq(b, c)) => eq(a, c)
            /\ (lt(a, b) /\ lt(b, c)) => lt(a, c)

---------------------------------------------------------------------------
(* Properties of the class length and of the ancestry search *)

\* C23: an engine built from a starting integer has as classLength() the
\* number of digits of its convergent equivalence class: 5 for 23, whose
\* class is +51100, and 7 for 7, whose class is +1100000; flow() with
\* default digits prints that class.
C23_ClassLength ==
    (Built /\ last.op = "assign")
      => /\ last.start = 23
              => /\ p.ec_len = 5
                 /\ (out.op = "flow" /\ out.digits = -1)
                      => out.str = <<43, 53, 49, 49, 48, 48>>
         /\ last.start = 7
              => /\ p.ec_len = 7
                 /\ (out.op = "flow" /\ out.digits = -1)
                      => out.str = <<43, 49, 49, 48, 48, 48, 48, 48>>

\* the engine searched holds a start with parents: not a multiple of D or M
HasParents == p.start_int % divisor # 0 /\ p.start_int % multiplier # 0

\* C24: for every start that is not divisible by D or by M and every
\* initial scale >= 1 the search loop of ancestry ends: it reaches a scale
\* no smaller than the initial one at which the probe
\* (scale * start * D - A) / M reproduces start, and leaves scale there.
C24_AncestryEnds ==
    (pc \in {"searched", "searching"} /\ HasParents /\ anc.scale_in >= 1)
      => /\ anc.returned
         /\ anc.scale >= anc.scale_in
         /\ anc.parent
              = CDiv(anc.scale * p.start_int * divisor - addend, multiplier)
         /\ RemoveFactors(ExactConnection(anc.parent)) = p.start_int

\* C25: the parents that successive calls ancestry( ++scale ) on one engine
\* return are pairwise distinct: no ancestor is found twice.
C25_DistinctAncestors ==
    \A i, j \in 1 .. Len(ancestors) :
        i # j => ancestors[i] # ancestors[j]

---------------------------------------------------------------------------
(* Properties of re-assignment.                                            *)

\* what an engine constructed for the last call would hold
Fresh ==
    IF last.op = "assign"
    THEN [SetPath(domain, speed, last.start, 0).obj
            EXCEPT !.ec_len = SetEc(domain, last.start)]
    ELSE SetPath(domain, speed, last.start, last.max_factors).obj

\* C26: after p = n or p.setpath( n ) on an engine that held a path, every
\* member of the engine (start, sign, orbit, path length, the three factor
\* counts, class length, maximum, error flags) is what n and the global
\* configuration alone determine: nothing of what the engine held before
\* is left.
C26_FromScratch == pc = "reassigned" => p = Fresh

\* an engine that held a path cut short by an overflow now holds a shorter
\* path, of another start, without the flag
C26_Witness ==
    /\ pc = "reassigned"
    /\ before.error_mask % 2 = 1
    /\ before.orb.path_length > p.orb.path_length
    /\ before.start_int # p.start_int
    /\ p.error_mask = 0
    /\ p = Fresh

---------------------------------------------------------------------------
(* Properties of the bulk scan.                                            *)

\* the frequency a report gives for the paths of one length
RECURSIVE Frequency(_, _)
Frequency(report, len) ==
    IF report = << >> THEN 0
    ELSE (IF Head(report).len = len THEN Head(report).frequency ELSE 0)
         + Frequency(Tail(report), len)

\* the path length the scan was called with, with its sign
Called == scan.sign * scan.path_length

\* C27: for every path length the frequencies and the total that the scan
\* reports with speed mode on equal those it reports with speed mode off.
C27_SpeedSameTotals ==
    (scan.phase = "done" /\ speed /\ ~scan.overrun)
      => LET off == ConvergentPath(domain, FALSE, Called)
         IN  /\ scan.sum = off.sum
             /\ \A len \in 0 .. scan.path_length + 1 :
                   Frequency(scan.report, len) = Frequency(off.report, len)

\* C30: whenever the scan inserts an orbit, the index of its tree, the
\* length of the orbit, lies within 0 .. path_length, for ranges of
\* positive and of negative integers.
C30_IndexInBounds ==
    (scan.phase = "loop" /\ scan.inserting)
      => scan.index \in 0 .. scan.path_length

---------------------------------------------------------------------------
(* Properties of the comparison of engines.                                *)

\* C29: for any two engines, != gives the negation of what == gives, also
\* when their path lengths differ while their orbits agree on every block
\* of the shorter one.
C29_NotEqualNegates ==
    verdict.compared => (verdict.not_equal <=> ~verdict.equal)

---------------------------------------------------------------------------
(* Termination of setpath.                                                 *)

\* C28: in the bounded domain, for every start, with or without a factor
\* budget, the walk loop of setpath ends, within as many passes as the
\* domain has values: by convergence (or at once for an even start), by a
\* flagged overflow, or by the early exit on the budget; and that is the
\* route the call took.
C28_SetPathEnds ==
    (pc = "built" /\ domain = "int64")
      => LET w == SetPathWithin(domain, speed, last.start, last.max_factors)
         IN  /\ w.route \in {"even", "converged", "overflow", "budget"}
             /\ w.route = last.route
             /\ last.route = "overflow" => p.error_mask % 2 = 1

\* a walk of several passes in the bounded domain that ended by convergence
C28_Witness ==
    /\ pc = "built"
    /\ domain = "int64"
    /\ last.route = "converged"
    /\ p.orb.path_length >= 3
    /\ SetPathWithin(domain, speed, last.start, last.max_factors).route = "converged"

====
